---- MODULE Spec2Model ----
(***************************************************************************)
(* KAIROS two-tier opportunity detection (modules/kairos_analyzer.py).     *)
(*                                                                         *)
(* Python strings are sequences of one-character strings (the euro sign is *)
(* the token "EUR").  Python floats that the analyzer adds or compares     *)
(* (scores, strengths, thresholds) are IEEE-754 doubles, kept exactly as   *)
(* the integer x * 2^56 split in two 28-bit limbs [hi, lo]; FAdd rounds to *)
(* nearest-even as the hardware does.  Odds are kept in hundredths (the    *)
(* double nearest to a two-decimal literal orders as the literal does).    *)
(***************************************************************************)
EXTENDS Integers, Sequences, FiniteSets, TLC

\* TLC evaluates an operator argument and a LET definition at each use; With
\* evaluates x once and applies F to its value.
With(x, F(_)) == CHOOSE r \in {F(v) : v \in {x}} : TRUE

\* ------------------------------------------------------------------ strings

EUR == "EUR"

Digits == <<"0", "1", "2", "3", "4", "5", "6", "7", "8", "9">>

IsDigit(c) == \E i \in 1..10 : Digits[i] = c

DigitVal(c) == (CHOOSE i \in 1..10 : Digits[i] = c) - 1

\* str.lower() on one character (ASCII letters and the capital A with acute
\* accent, written "A'"; every other character is kept)
LowerChar(c) ==
    CASE c = "A" -> "a" [] c = "B" -> "b" [] c = "C" -> "c" [] c = "D" -> "d"
      [] c = "E" -> "e" [] c = "F" -> "f" [] c = "G" -> "g" [] c = "H" -> "h"
      [] c = "I" -> "i" [] c = "J" -> "j" [] c = "K" -> "k" [] c = "L" -> "l"
      [] c = "M" -> "m" [] c = "N" -> "n" [] c = "O" -> "o" [] c = "P" -> "p"
      [] c = "Q" -> "q" [] c = "R" -> "r" [] c = "S" -> "s" [] c = "T" -> "t"
      [] c = "U" -> "u" [] c = "V" -> "v" [] c = "W" -> "w" [] c = "X" -> "x"
      [] c = "Y" -> "y" [] c = "Z" -> "z" [] c = "A'" -> "a'" [] OTHER -> c

\* str.lower()
Lower(s) == [i \in 1..Len(s) |-> LowerChar(s[i])]

\* sub in s
Contains(s, sub) ==
    \E i \in 0..(Len(s) - Len(sub)) : SubSeq(s, i + 1, i + Len(sub)) = sub

\* s.replace(c, '') for a one-character c
Remove(s, c) == SelectSeq(s, LAMBDA x : x # c)

\* s.strip(): what int() and float() do to surrounding blanks
RECURSIVE LStrip(_)
LStrip(s) == IF s # <<>> /\ Head(s) = " " THEN LStrip(Tail(s)) ELSE s

RECURSIVE RStrip(_)
RStrip(s) ==
    IF s # <<>> /\ s[Len(s)] = " " THEN RStrip(SubSeq(s, 1, Len(s) - 1)) ELSE s

Strip(s) == RStrip(LStrip(s))

AllDigits(s) == \A i \in 1..Len(s) : IsDigit(s[i])

RECURSIVE DigitsVal(_)
DigitsVal(s) ==
    IF s = <<>> THEN 0
    ELSE 10 * DigitsVal(SubSeq(s, 1, Len(s) - 1)) + DigitVal(s[Len(s)])

\* str(n) for an integer n >= 0
RECURSIVE IntStr(_)
IntStr(n) ==
    IF n < 10 THEN <<Digits[n + 1]>> ELSE IntStr(n \div 10) \o <<Digits[(n % 10) + 1]>>

\* The result of a conversion: a number or the exception it raises.
Ok(n) == [k |-> "ok", n |-> n]
Raises(e) == [k |-> e, n |-> 0]

\* int(s) on a str: blanks stripped, an optional sign, then digits only
PyInt(s) ==
    With(Strip(s), LAMBDA t :
        LET neg == t # <<>> /\ Head(t) = "-"
            u == IF t # <<>> /\ Head(t) \in {"-", "+"} THEN Tail(t) ELSE t
        IN  IF u # <<>> /\ AllDigits(u)
            THEN Ok(IF neg THEN 0 - DigitsVal(u) ELSE DigitsVal(u))
            ELSE Raises("ValueError"))

\* The position of the first "." of s, or 0
FirstDot(s) ==
    IF \E i \in 1..Len(s) : s[i] = "."
    THEN CHOOSE i \in 1..Len(s) : s[i] = "." /\ \A j \in 1..(i - 1) : s[j] # "."
    ELSE 0

\* int(float(s)) on a str: blanks stripped, an optional sign, digits with at
\* most one decimal point and a digit on one side of it; truncated to the
\* integer part.  "inf"/"infinity" convert to a float that int() rejects with
\* OverflowError; "nan" with ValueError.
PyIntOfFloat(s) ==
    With(Lower(Strip(s)), LAMBDA t :
    With(FirstDot(t), LAMBDA dot :
        LET neg == t # <<>> /\ Head(t) = "-"
            signed == t # <<>> /\ Head(t) \in {"-", "+"}
            u == IF signed THEN Tail(t) ELSE t
            d == IF signed /\ dot > 0 THEN dot - 1 ELSE dot
        IN  IF u \in {<<"i", "n", "f">>, <<"i", "n", "f", "i", "n", "i", "t", "y">>}
            THEN Raises("OverflowError")
            ELSE With(<<IF d = 0 THEN u ELSE SubSeq(u, 1, d - 1),
                        IF d = 0 THEN <<>> ELSE SubSeq(u, d + 1, Len(u))>>,
                      LAMBDA p :
                IF AllDigits(p[1]) /\ AllDigits(p[2]) /\ (p[1] # <<>> \/ p[2] # <<>>)
                THEN Ok(IF neg THEN 0 - DigitsVal(p[1]) ELSE DigitsVal(p[1]))
                ELSE Raises("ValueError"))))

\* ------------------------------------------------------------------- floats

Limb == 2^28

Dbl(hi, lo) == [hi |-> hi, lo |-> lo]

\* The float literals of kairos_analyzer.py, as float.hex() gives them
F0_0  == Dbl(0, 0)                     \* 0.0
F0_15 == Dbl(40265318, 107374182)      \* 0x1.3333333333333p-3
F0_2  == Dbl(53687091, 53687092)       \* 0x1.999999999999ap-3
F0_25 == Dbl(67108864, 0)              \* 0x1.0000000000000p-2
F0_3  == Dbl(80530636, 214748364)      \* 0x1.3333333333333p-2
F0_35 == Dbl(93952409, 161061272)      \* 0x1.6666666666666p-2
F0_4  == Dbl(107374182, 107374184)     \* 0x1.999999999999ap-2
F0_5  == Dbl(134217728, 0)             \* 0x1.0000000000000p-1
F0_6  == Dbl(161061273, 161061272)     \* 0x1.3333333333333p-1
F0_7  == Dbl(187904819, 53687088)      \* 0x1.6666666666666p-1
F0_8  == Dbl(214748364, 214748368)     \* 0x1.999999999999ap-1
F0_9  == Dbl(241591910, 107374184)     \* 0x1.ccccccccccccdp-1
F1_0  == Dbl(268435456, 0)             \* 0x1.0000000000000p+0

\* a >= b, a > b on doubles
FGe(a, b) == a.hi > b.hi \/ (a.hi = b.hi /\ a.lo >= b.lo)
FGt(a, b) == a.hi > b.hi \/ (a.hi = b.hi /\ a.lo > b.lo)

\* a + b on doubles in [0, 2): the exact sum rounded to 53 significant bits,
\* ties to even
FAdd(a, b) ==
    LET lo0 == a.lo + b.lo
        lo1 == lo0 % Limb
        hi1 == a.hi + b.hi + (lo0 \div Limb)
        ulp == IF hi1 >= Limb THEN 16
               ELSE IF hi1 >= Limb \div 2 THEN 8
               ELSE IF hi1 >= Limb \div 4 THEN 4
               ELSE IF hi1 >= Limb \div 8 THEN 2 ELSE 1
        r == lo1 % ulp
        base == lo1 - r
        up == 2 * r > ulp \/ (2 * r = ulp /\ (base \div ulp) % 2 = 1)
        lo2 == IF up THEN base + ulp ELSE base
    IN  Dbl(hi1 + (lo2 \div Limb), lo2 % Limb)

\* ------------------------------------------------------------ Python values

\* A value of a selection: None, a str, an int, or a float in hundredths.
NoneV == [t |-> "None", s |-> <<>>, n |-> 0]
StrV(s) == [t |-> "str", s |-> s, n |-> 0]
IntV(n) == [t |-> "int", s |-> <<>>, n |-> n]
FloatV(c) == [t |-> "float", s |-> <<>>, n |-> c]

\* In place of a value: the exception e that propagates out of a call
Exception(e) == [t |-> e, s |-> <<>>, n |-> 0]
IsException(v) == v.t \notin {"None", "str", "int", "float"}

\* bool(v)
Truthy(v) ==
    CASE v.t = "None" -> FALSE
      [] v.t = "str" -> v.s # <<>>
      [] OTHER -> v.n # 0

\* str(v): a float prints its integer part, a point and its decimals, without
\* a trailing zero beyond the first
PyStr(v) ==
    CASE v.t = "str" -> v.s
      [] v.t = "int" -> IntStr(v.n)
      [] v.t = "float" ->
            IntStr(v.n \div 100) \o <<".">> \o
            (IF v.n % 10 = 0 THEN <<Digits[((v.n % 100) \div 10) + 1]>>
             ELSE <<Digits[((v.n % 100) \div 10) + 1], Digits[(v.n % 10) + 1]>>)
      [] OTHER -> <<"N", "o", "n", "e">>

\* float(s) on a str with at most two decimals, in hundredths
PyFloat(s) ==
    With(Strip(s), LAMBDA t :
    With(FirstDot(t), LAMBDA dot :
        LET neg == t # <<>> /\ Head(t) = "-"
            signed == t # <<>> /\ Head(t) \in {"-", "+"}
            u == IF signed THEN Tail(t) ELSE t
            d == IF signed /\ dot > 0 THEN dot - 1 ELSE dot
        IN  With(<<IF d = 0 THEN u ELSE SubSeq(u, 1, d - 1),
                   IF d = 0 THEN <<>> ELSE SubSeq(u, d + 1, Len(u))>>,
                 LAMBDA p :
                LET h == 100 * DigitsVal(p[1])
                         + DigitsVal(SubSeq(p[2] \o <<"0", "0">>, 1, 2))
                IN  IF AllDigits(p[1]) /\ AllDigits(p[2])
                       /\ (p[1] # <<>> \/ p[2] # <<>>) /\ Len(p[2]) <= 2
                    THEN Ok(IF neg THEN 0 - h ELSE h)
                    ELSE Raises("ValueError"))))

\* ------------------------------------------------- names used by the analyzer

S_type == <<"t", "y", "p", "e">>
S_summ == <<"s", "u", "m", "m">>
S_odds == <<"o", "d", "d", "s">>
S_change == <<"c", "h", "a", "n", "g", "e">>
S_percent == <<"p", "e", "r", "c", "e", "n", "t">>
S_time == <<"t", "i", "m", "e">>
S_score == <<"s", "c", "o", "r", "e">>
S_live == <<"l", "i", "v", "e">>
S_MatchOdds == <<"M", "a", "t", "c", "h", " ", "O", "d", "d", "s">>
S_OverUnder == <<"O", "v", "e", "r", "/", "U", "n", "d", "e", "r">>
S_BTTS == <<"B", "o", "t", "h", " ", "t", "e", "a", "m", "s", " ", "t", "o", " ",
            "S", "c", "o", "r", "e">>
S_Half == <<"H", "a", "l", "f">>
S_Over == <<"O", "v", "e", "r">>
S_NA == <<"N", "/", "A">>
S_Favorito ==
    <<"F", "a", "v", "o", "r", "i", "t", "o", " ", "i", "d", "e", "n", "t", "i", "f", "i",
      "c", "a", "d", "o">>

\* ------------------------------------------------------- MarketRecord parser

EmptyData ==
    [type |-> NoneV, volume |-> NoneV, odds |-> NoneV, change |-> NoneV,
     percent |-> NoneV, time |-> NoneV, score |-> NoneV]

\* The loop iteration with "first value wins": a field already set is kept
ExtractStep_first(data, selection) ==
    With(Lower(selection.name), LAMBDA name :
    LET value == selection.odds
        Keep(old, new) == IF old = NoneV THEN new ELSE old
    IN  IF Contains(name, S_type) THEN [data EXCEPT !.type = Keep(@, value)]
        ELSE IF Contains(name, S_summ) THEN [data EXCEPT !.volume = Keep(@, value)]
        ELSE IF Contains(name, S_odds) /\ value.t \in {"int", "float"}
             THEN [data EXCEPT !.odds =
                       Keep(@, FloatV(IF value.t = "int" THEN 100 * value.n ELSE value.n))]
        ELSE IF Contains(name, S_change) THEN [data EXCEPT !.change = Keep(@, value)]
        ELSE IF Contains(name, S_percent) THEN [data EXCEPT !.percent = Keep(@, value)]
        ELSE IF Contains(name, S_time) THEN [data EXCEPT !.time = Keep(@, value)]
        ELSE IF Contains(name, S_score) THEN [data EXCEPT !.score = Keep(@, value)]
        ELSE data)

\* One iteration of the loop of _extract_market_data
ExtractStep(data, selection) ==
    With(Lower(selection.name), LAMBDA name :
    LET value == selection.odds
    IN  IF Contains(name, S_type) THEN [data EXCEPT !.type = value]
        ELSE IF Contains(name, S_summ) THEN [data EXCEPT !.volume = value]
        ELSE IF Contains(name, S_odds) /\ value.t \in {"int", "float"}
             THEN [data EXCEPT !.odds =
                       FloatV(IF value.t = "int" THEN 100 * value.n ELSE value.n)]
        ELSE IF Contains(name, S_change) THEN [data EXCEPT !.change = value]
        ELSE IF Contains(name, S_percent) THEN [data EXCEPT !.percent = value]
        ELSE IF Contains(name, S_time) THEN [data EXCEPT !.time = value]
        ELSE IF Contains(name, S_score) THEN [data EXCEPT !.score = value]
        ELSE data)

RECURSIVE ExtractFrom(_, _)
ExtractFrom(data, selections) ==
    IF selections = <<>> THEN data
    ELSE With(ExtractStep(data, Head(selections)), LAMBDA d :
              ExtractFrom(d, Tail(selections)))

\* PreliminaryAnalyzer._extract_market_data and KairosAnalyzer._extract_market_data
\* (the two methods have the same body)
extract_market_data(selections) == ExtractFrom(EmptyData, selections)

\* market.get('market_name', '')
NameOrEmpty(market) == IF market.has_name THEN market.market_name ELSE <<>>

\* ------------------------------------------------- Preliminary Signal Detector

\* PreliminaryAnalyzer._parse_volume: None, or the parsed integer
Prelim_parse_volume(volume_str) ==
    IF ~Truthy(volume_str) THEN NoneV
    ELSE With(Remove(Remove(Remove(PyStr(volume_str), EUR), ","), "."),
              LAMBDA volume_clean :
              With(PyInt(volume_clean), LAMBDA r :
                   IF r.k = "ok" THEN IntV(r.n) ELSE NoneV))

\* abs(x) * 100 for a tier's min_odds_drop_percent x, given in ten-thousandths
\* (-0.05 is -500): h is the product in hundredths of a percent, e the sign of
\* the rounding error of the double product against it.  Of the whole
\* percentages 0.01 .. 0.30 the product is inexact for 0.07, 0.14, 0.28
\* (0.07 * 100 = 7.000000000000001) and 0.29 (28.999999999999996).
Pct(h, e) == [h |-> h, e |-> e]

AbsTimes100(x) ==
    LET a == IF x < 0 THEN 0 - x ELSE x
    IN  Pct(a, IF a \in {700, 1400, 2800} THEN 1 ELSE IF a = 2900 THEN 0 - 1 ELSE 0)

\* t * k for k a power of two (exact on doubles)
PctScale(t, k) == Pct(t.h * k, t.e)

\* d >= t for a parsed percentage d (hundredths) and a threshold t
PctGe(d, t) == d > t.h \/ (d = t.h /\ t.e <= 0)

\* PreliminaryAnalyzer.__init__: tier_config is None (has = FALSE) or a dict
\* with min_volume and min_odds_drop_percent
NoTierConfig == [has |-> FALSE, min_volume |-> 0, min_odds_drop_percent |-> 0]
TierConfig(v, d) == [has |-> TRUE, min_volume |-> v, min_odds_drop_percent |-> d]

PreliminaryAnalyzer(tier_config) ==
    LET min_volume == IF tier_config.has THEN tier_config.min_volume ELSE 5000
        min_drop_percent ==
            IF tier_config.has THEN AbsTimes100(tier_config.min_odds_drop_percent)
            ELSE Pct(500, 0)
    IN  [money_way |-> [min_volume |-> min_volume,
                        high_volume |-> min_volume * 3,
                        very_high_volume |-> min_volume * 6],
         drop_odds |-> [min_drop_percent |-> min_drop_percent,
                        significant_drop |-> PctScale(min_drop_percent, 2),
                        major_drop |-> PctScale(min_drop_percent, 4)],
         sharp_bet |-> [min_increase_percent |-> 15,
                        significant_increase |-> 30,
                        major_increase |-> 50]]

NoSignal == [signal_type |-> "none", strength |-> F0_0,
             description |-> [text |-> "", value |-> 0, threshold |-> 0],
             market_name |-> <<>>, volume |-> NoneV, odds_change |-> NoneV,
             time_detected |-> "now"]

MarketSignal(signal_type, strength, text, value, threshold, market_name, volume, odds_change) ==
    [signal_type |-> signal_type, strength |-> strength,
     description |-> [text |-> text, value |-> value, threshold |-> threshold],
     market_name |-> market_name, volume |-> volume, odds_change |-> odds_change,
     time_detected |-> "now"]

\* _detect_money_way with "volume > very_high_volume" in its first test
detect_money_way_strict(config, market_name, data) ==
    With(Prelim_parse_volume(data.volume), LAMBDA volume :
    LET cfg == config.money_way
    IN  IF ~Truthy(volume) THEN NoSignal
        ELSE IF volume.n > cfg.very_high_volume
        THEN MarketSignal("money_way", F1_0, "Volume muito alto", volume.n,
                          cfg.very_high_volume, market_name, volume, NoneV)
        ELSE IF volume.n >= cfg.high_volume
        THEN MarketSignal("money_way", F0_8, "Volume alto", volume.n,
                          cfg.high_volume, market_name, volume, NoneV)
        ELSE IF volume.n >= cfg.min_volume
        THEN MarketSignal("money_way", F0_6, "Volume significativo", volume.n,
                          cfg.min_volume, market_name, volume, NoneV)
        ELSE NoSignal)

\* PreliminaryAnalyzer._detect_money_way
detect_money_way(config, market_name, data) ==
    With(Prelim_parse_volume(data.volume), LAMBDA volume :
    LET cfg == config.money_way
    IN  IF ~Truthy(volume) THEN NoSignal
        ELSE IF volume.n >= cfg.very_high_volume
        THEN MarketSignal("money_way", F1_0, "Volume muito alto", volume.n,
                          cfg.very_high_volume, market_name, volume, NoneV)
        ELSE IF volume.n >= cfg.high_volume
        THEN MarketSignal("money_way", F0_8, "Volume alto", volume.n,
                          cfg.high_volume, market_name, volume, NoneV)
        ELSE IF volume.n >= cfg.min_volume
        THEN MarketSignal("money_way", F0_6, "Volume significativo", volume.n,
                          cfg.min_volume, market_name, volume, NoneV)
        ELSE NoSignal)

\* The drop_percent that _detect_drop_odds extracts: 0 stands for None and 0.0,
\* both of which "not drop_percent" rejects
DropPercent(percent_data) ==
    IF Truthy(percent_data) /\ percent_data.t = "str"
       /\ Contains(percent_data.s, <<"%">>) /\ Contains(percent_data.s, <<"-">>)
    THEN With(PyFloat(Remove(Remove(percent_data.s, "%"), "-")), LAMBDA r :
              IF r.k = "ok" THEN (IF r.n < 0 THEN 0 - r.n ELSE r.n) ELSE 0)
    ELSE 0

\* _detect_drop_odds with ">" in place of ">=" in its three tests
detect_drop_odds_gt(config, market_name, data) ==
    With(DropPercent(data.percent), LAMBDA drop_percent :
    LET cfg == config.drop_odds
        Gt(d, t) == d > t.h \/ (d = t.h /\ t.e < 0)
    IN  IF ~Truthy(data.change) /\ ~Truthy(data.percent) THEN NoSignal
        ELSE IF drop_percent = 0 THEN NoSignal
        ELSE IF Gt(drop_percent, cfg.major_drop)
        THEN MarketSignal("drop_odds", F1_0, "Queda major nas odds", drop_percent,
                          cfg.major_drop.h, market_name, NoneV,
                          FloatV(0 - drop_percent))
        ELSE IF Gt(drop_percent, cfg.significant_drop)
        THEN MarketSignal("drop_odds", F0_8, "Queda significativa", drop_percent,
                          cfg.significant_drop.h, market_name, NoneV,
                          FloatV(0 - drop_percent))
        ELSE IF Gt(drop_percent, cfg.min_drop_percent)
        THEN MarketSignal("drop_odds", F0_6, "Queda detectada", drop_percent,
                          cfg.min_drop_percent.h, market_name, NoneV,
                          FloatV(0 - drop_percent))
        ELSE NoSignal)

\* PreliminaryAnalyzer._detect_drop_odds
detect_drop_odds(config, market_name, data) ==
    With(DropPercent(data.percent), LAMBDA drop_percent :
    LET cfg == config.drop_odds
    IN  IF ~Truthy(data.change) /\ ~Truthy(data.percent) THEN NoSignal
        ELSE IF drop_percent = 0 THEN NoSignal
        ELSE IF PctGe(drop_percent, cfg.major_drop)
        THEN MarketSignal("drop_odds", F1_0, "Queda major nas odds", drop_percent,
                          cfg.major_drop.h, market_name, NoneV,
                          FloatV(0 - drop_percent))
        ELSE IF PctGe(drop_percent, cfg.significant_drop)
        THEN MarketSignal("drop_odds", F0_8, "Queda significativa", drop_percent,
                          cfg.significant_drop.h, market_name, NoneV,
                          FloatV(0 - drop_percent))
        ELSE IF PctGe(drop_percent, cfg.min_drop_percent)
        THEN MarketSignal("drop_odds", F0_6, "Queda detectada", drop_percent,
                          cfg.min_drop_percent.h, market_name, NoneV,
                          FloatV(0 - drop_percent))
        ELSE NoSignal)

\* _detect_sharp_bet with its two volumes scaled by the tier's minimum volume
\* (20000 and 10000 under the default configuration)
detect_sharp_bet_tiered(config, market_name, data) ==
    With(Prelim_parse_volume(data.volume), LAMBDA volume :
    LET market_type == data.type
        m == config.money_way.min_volume
    IN  IF ~Truthy(volume) \/ market_type # StrV(S_live) THEN NoSignal
        ELSE IF volume.n >= 4 * m
        THEN MarketSignal("sharp_bet", F0_9, "Possivel sharp bet", volume.n, 20000,
                          market_name, volume, NoneV)
        ELSE IF volume.n >= 2 * m
        THEN MarketSignal("sharp_bet", F0_7, "Movimento suspeito", volume.n, 10000,
                          market_name, volume, NoneV)
        ELSE NoSignal)

\* PreliminaryAnalyzer._detect_sharp_bet
detect_sharp_bet(config, market_name, data) ==
    With(Prelim_parse_volume(data.volume), LAMBDA volume :
    LET market_type == data.type
    IN  IF ~Truthy(volume) \/ market_type # StrV(S_live) THEN NoSignal
        ELSE IF volume.n >= 20000
        THEN MarketSignal("sharp_bet", F0_9, "Possivel sharp bet", volume.n, 20000,
                          market_name, volume, NoneV)
        ELSE IF volume.n >= 10000
        THEN MarketSignal("sharp_bet", F0_7, "Movimento suspeito", volume.n, 10000,
                          market_name, volume, NoneV)
        ELSE NoSignal)

\* "if signal: signals.append(signal)"
AppendIf(signals, signal) ==
    With(signal, LAMBDA s : IF s = NoSignal THEN signals ELSE Append(signals, s))

\* _analyze_market_signals as an elif chain: the first detector that fires
\* ends the market
analyze_market_signals_first(config, market) ==
    With(extract_market_data(market.selections), LAMBDA market_data :
    LET market_name == NameOrEmpty(market)
    IN  With(detect_money_way(config, market_name, market_data), LAMBDA money_signal :
        IF money_signal # NoSignal THEN <<money_signal>>
        ELSE With(detect_drop_odds(config, market_name, market_data), LAMBDA drop_signal :
             IF drop_signal # NoSignal THEN <<drop_signal>>
             ELSE AppendIf(<<>>, detect_sharp_bet(config, market_name, market_data)))))

\* _analyze_market_signals with the Sharp-Bet detector run first
analyze_market_signals_sharp_first(config, market) ==
    With(extract_market_data(market.selections), LAMBDA market_data :
    LET market_name == NameOrEmpty(market)
    IN  AppendIf(AppendIf(AppendIf(<<>>,
            detect_sharp_bet(config, market_name, market_data)),
            detect_money_way(config, market_name, market_data)),
            detect_drop_odds(config, market_name, market_data)))

\* PreliminaryAnalyzer._analyze_market_signals
analyze_market_signals(config, market) ==
    With(extract_market_data(market.selections), LAMBDA market_data :
    LET market_name == NameOrEmpty(market)
    IN  AppendIf(AppendIf(AppendIf(<<>>,
            detect_money_way(config, market_name, market_data)),
            detect_drop_odds(config, market_name, market_data)),
            detect_sharp_bet(config, market_name, market_data)))

RECURSIVE CollectSignals(_, _)
CollectSignals(config, market_data) ==
    IF market_data = <<>> THEN <<>>
    ELSE analyze_market_signals(config, Head(market_data))
         \o CollectSignals(config, Tail(market_data))

\* analyze_markets_preliminary with the filter "strength > 0.6"
analyze_markets_preliminary_gt(config, market_data) ==
    SelectSeq(CollectSignals(config, market_data), LAMBDA s : FGt(s.strength, F0_6))

\* PreliminaryAnalyzer.analyze_markets_preliminary
analyze_markets_preliminary(config, market_data) ==
    SelectSeq(CollectSignals(config, market_data), LAMBDA s : FGe(s.strength, F0_6))


\* --------------------------------------------------------- Deep Market Scorer

\* KairosAnalyzer.__init__: self.confidence_thresholds
ConfidenceThresholds == [alto |-> F0_8, medio |-> F0_6, baixo |-> F0_4]

\* KairosAnalyzer._parse_volume: None, the parsed integer, or the exception
\* that "except (ValueError, TypeError)" does not catch
Kairos_parse_volume(volume_str) ==
    IF ~Truthy(volume_str) THEN NoneV
    ELSE With(Remove(Remove(Remove(PyStr(volume_str), EUR), " "), ","),
              LAMBDA clean_str :
              With(PyIntOfFloat(clean_str), LAMBDA r :
                   IF r.k = "ok" THEN IntV(r.n)
                   ELSE IF r.k \in {"ValueError", "TypeError"} THEN NoneV
                   ELSE Exception(r.k)))

\* The largest j >= i with s[i..j] all digits (s[i] is a digit)
DigitRunEnd(s, i) ==
    CHOOSE j \in i..Len(s) :
        /\ \A k \in i..j : IsDigit(s[k])
        /\ (j = Len(s) \/ ~IsDigit(s[j + 1]))

\* Whether the pattern (\d+\.\d+) matches s from position i
GoalLineAt(s, i) ==
    /\ IsDigit(s[i])
    /\ LET j == DigitRunEnd(s, i)
       IN  j + 2 <= Len(s) /\ s[j + 1] = "." /\ IsDigit(s[j + 2])

\* KairosAnalyzer._extract_goal_line: the leftmost match of (\d+\.\d+), or None
extract_goal_line(market_name) ==
    IF \E i \in 1..Len(market_name) : GoalLineAt(market_name, i)
    THEN LET i == CHOOSE a \in 1..Len(market_name) :
                      /\ GoalLineAt(market_name, a)
                      /\ \A b \in 1..(a - 1) : ~GoalLineAt(market_name, b)
             j == DigitRunEnd(market_name, i)
         IN  StrV(SubSeq(market_name, i, DigitRunEnd(market_name, j + 2)))
    ELSE NoneV

\* _get_confidence_level with "score > alto" in its first test
get_confidence_level_gt(thresholds, score) ==
    IF FGt(score, thresholds.alto) THEN "Alto"
    ELSE IF FGe(score, thresholds.medio) THEN "Medio"
    ELSE "Baixo"

\* KairosAnalyzer._get_confidence_level ("Medio" is the label written with an
\* acute accent in the source)
get_confidence_level(thresholds, score) ==
    IF FGe(score, thresholds.alto) THEN "Alto"
    ELSE IF FGe(score, thresholds.medio) THEN "Medio"
    ELSE "Baixo"

BettingOpportunity(found, market, selection, rule, parts, confidence_level, betfair_url, volume, odds) ==
    [found |-> found, market |-> market, selection |-> selection,
     justification |-> [rule |-> rule, parts |-> parts],
     confidence_level |-> confidence_level, betfair_url |-> betfair_url,
     volume |-> volume, odds |-> odds]

\* The found=False opportunity with a justification text
NotFound(text) ==
    BettingOpportunity(FALSE, S_NA, S_NA, text, <<>>, "Baixo", NoneV, NoneV, NoneV)

\* One sentence of a justification: its wording and the value it embeds
Part(tag, n, s) == [tag |-> tag, n |-> n, s |-> s]

\* What a rule returns: None, or the tuple (opportunity, confidence_score)
\* or the exception that leaves the rule (raised)
NoCandidate == [some |-> FALSE, opp |-> NotFound(""), score |-> F0_0, raised |-> "none"]
Candidate(opp, score) == [some |-> TRUE, opp |-> opp, score |-> score, raised |-> "none"]
Raise(e) == [some |-> FALSE, opp |-> NotFound(""), score |-> F0_0, raised |-> e]

\* f"{volume}EUR"
VolumeLabel(volume) == StrV(IntStr(volume.n) \o <<EUR>>)

\* "confidence_score += w; justification_parts.append(part)" under a condition
Credit(acc, cond, w, part) ==
    IF cond
    THEN [score |-> FAdd(acc.score, w), parts |-> Append(acc.parts, part)]
    ELSE acc

Zero == [score |-> F0_0, parts |-> <<>>]

\* _analyze_match_odds with "volume >= 50000" in its first test
analyze_match_odds_ge(thresholds, market_name, data, betfair_url) ==
    With(Kairos_parse_volume(data.volume), LAMBDA volume :
    LET odds == data.odds
        market_type == data.type
        a1 == IF volume.n >= 50000
              THEN Credit(Zero, TRUE, F0_3, Part("Alto volume", volume.n, <<>>))
              ELSE Credit(Zero, volume.n > 20000, F0_2,
                          Part("Volume moderado", volume.n, <<>>))
        a2 == Credit(a1, 150 <= odds.n /\ odds.n <= 250, F0_3,
                     Part("Odds em range de valor", odds.n, <<>>))
        a3 == Credit(a2, market_type = StrV(S_live), F0_2,
                     Part("Mercado ao vivo", 0, <<>>))
    IN  IF IsException(volume) THEN Raise(volume.t)
        ELSE IF ~Truthy(volume) \/ ~Truthy(odds) THEN NoCandidate
        ELSE With(a3, LAMBDA acc :
            IF FGe(acc.score, F0_6)
            THEN Candidate(BettingOpportunity(TRUE, market_name,
                     S_Favorito, "Match Odds", acc.parts,
                     get_confidence_level(thresholds, acc.score), betfair_url,
                     VolumeLabel(volume), odds), acc.score)
            ELSE NoCandidate))

\* KairosAnalyzer._analyze_match_odds
analyze_match_odds(thresholds, market_name, data, betfair_url) ==
    With(Kairos_parse_volume(data.volume), LAMBDA volume :
    LET odds == data.odds
        market_type == data.type
        a1 == IF volume.n > 50000
              THEN Credit(Zero, TRUE, F0_3, Part("Alto volume", volume.n, <<>>))
              ELSE Credit(Zero, volume.n > 20000, F0_2,
                          Part("Volume moderado", volume.n, <<>>))
        a2 == Credit(a1, 150 <= odds.n /\ odds.n <= 250, F0_3,
                     Part("Odds em range de valor", odds.n, <<>>))
        a3 == Credit(a2, market_type = StrV(S_live), F0_2,
                     Part("Mercado ao vivo", 0, <<>>))
    IN  IF IsException(volume) THEN Raise(volume.t)
        ELSE IF ~Truthy(volume) \/ ~Truthy(odds) THEN NoCandidate
        ELSE With(a3, LAMBDA acc :
            IF FGe(acc.score, F0_6)
            THEN Candidate(BettingOpportunity(TRUE, market_name,
                     S_Favorito, "Match Odds", acc.parts,
                     get_confidence_level(thresholds, acc.score), betfair_url,
                     VolumeLabel(volume), odds), acc.score)
            ELSE NoCandidate))

\* _analyze_over_under with "volume >= 30000" in its volume test
analyze_over_under_ge(thresholds, market_name, data, betfair_url) ==
    With(Kairos_parse_volume(data.volume), LAMBDA volume :
    With(extract_goal_line(market_name), LAMBDA goal_line :
    LET odds == data.odds
        market_type == data.type
        a1 == Credit(Zero, volume.n >= 30000, F0_25,
                     Part("Volume expressivo", volume.n, <<>>))
        a2 == Credit(a1, 180 <= odds.n /\ odds.n <= 220, F0_35,
                     Part("Odds equilibradas", odds.n, <<>>))
        a3 == Credit(a2, goal_line \in {StrV(<<"2", ".", "5">>), StrV(<<"1", ".", "5">>)},
                     F0_2, Part("Linha com boa liquidez", 0, goal_line.s))
        a4 == Credit(a3, market_type = StrV(S_live), F0_15,
                     Part("Dinamica ao vivo favoravel", 0, <<>>))
    IN  IF IsException(volume) THEN Raise(volume.t)
        ELSE IF ~Truthy(volume) \/ ~Truthy(odds) THEN NoCandidate
        ELSE With(a4, LAMBDA acc :
            IF FGe(acc.score, F0_6)
            THEN Candidate(BettingOpportunity(TRUE, market_name,
                     IF Truthy(goal_line) THEN S_Over \o <<" ">> \o goal_line.s
                     ELSE S_Over,
                     "Over/Under", acc.parts,
                     get_confidence_level(thresholds, acc.score), betfair_url,
                     VolumeLabel(volume), odds), acc.score)
            ELSE NoCandidate)))

\* KairosAnalyzer._analyze_over_under
analyze_over_under(thresholds, market_name, data, betfair_url) ==
    With(Kairos_parse_volume(data.volume), LAMBDA volume :
    With(extract_goal_line(market_name), LAMBDA goal_line :
    LET odds == data.odds
        market_type == data.type
        a1 == Credit(Zero, volume.n > 30000, F0_25,
                     Part("Volume expressivo", volume.n, <<>>))
        a2 == Credit(a1, 180 <= odds.n /\ odds.n <= 220, F0_35,
                     Part("Odds equilibradas", odds.n, <<>>))
        a3 == Credit(a2, goal_line \in {StrV(<<"2", ".", "5">>), StrV(<<"1", ".", "5">>)},
                     F0_2, Part("Linha com boa liquidez", 0, goal_line.s))
        a4 == Credit(a3, market_type = StrV(S_live), F0_15,
                     Part("Dinamica ao vivo favoravel", 0, <<>>))
    IN  IF IsException(volume) THEN Raise(volume.t)
        ELSE IF ~Truthy(volume) \/ ~Truthy(odds) THEN NoCandidate
        ELSE With(a4, LAMBDA acc :
            IF FGe(acc.score, F0_6)
            THEN Candidate(BettingOpportunity(TRUE, market_name,
                     IF Truthy(goal_line) THEN S_Over \o <<" ">> \o goal_line.s
                     ELSE S_Over,
                     "Over/Under", acc.parts,
                     get_confidence_level(thresholds, acc.score), betfair_url,
                     VolumeLabel(volume), odds), acc.score)
            ELSE NoCandidate)))

\* _analyze_btts with "Yes" for odds <= 2.0
analyze_btts_le(thresholds, market_name, data, betfair_url) ==
    With(Kairos_parse_volume(data.volume), LAMBDA volume :
    LET odds == data.odds
        a1 == Credit(Zero, volume.n > 15000, F0_3,
                     Part("Volume no BTTS", volume.n, <<>>))
        a2 == Credit(a1, 160 <= odds.n /\ odds.n <= 240, F0_4,
                     Part("Odds atrativas", odds.n, <<>>))
    IN  IF IsException(volume) THEN Raise(volume.t)
        ELSE IF ~Truthy(volume) \/ ~Truthy(odds) THEN NoCandidate
        ELSE With(a2, LAMBDA acc :
            IF FGe(acc.score, F0_5)
            THEN Candidate(BettingOpportunity(TRUE, market_name,
                     IF odds.n <= 200 THEN <<"Y", "e", "s">> ELSE <<"N", "o">>,
                     "BTTS", acc.parts,
                     get_confidence_level(thresholds, acc.score), betfair_url,
                     VolumeLabel(volume), odds), acc.score)
            ELSE NoCandidate))

\* KairosAnalyzer._analyze_btts
analyze_btts(thresholds, market_name, data, betfair_url) ==
    With(Kairos_parse_volume(data.volume), LAMBDA volume :
    LET odds == data.odds
        a1 == Credit(Zero, volume.n > 15000, F0_3,
                     Part("Volume no BTTS", volume.n, <<>>))
        a2 == Credit(a1, 160 <= odds.n /\ odds.n <= 240, F0_4,
                     Part("Odds atrativas", odds.n, <<>>))
    IN  IF IsException(volume) THEN Raise(volume.t)
        ELSE IF ~Truthy(volume) \/ ~Truthy(odds) THEN NoCandidate
        ELSE With(a2, LAMBDA acc :
            IF FGe(acc.score, F0_5)
            THEN Candidate(BettingOpportunity(TRUE, market_name,
                     IF odds.n < 200 THEN <<"Y", "e", "s">> ELSE <<"N", "o">>,
                     "BTTS", acc.parts,
                     get_confidence_level(thresholds, acc.score), betfair_url,
                     VolumeLabel(volume), odds), acc.score)
            ELSE NoCandidate))

\* _analyze_half_markets with the volume credited from the gate of 10000 on
analyze_half_markets_gate(thresholds, market_name, data, betfair_url) ==
    With(Kairos_parse_volume(data.volume), LAMBDA volume :
    LET odds == data.odds
        a1 == Credit(Zero, volume.n >= 10000, F0_25,
                     Part("Volume HT", volume.n, <<>>))
        a2 == Credit(a1, 150 <= odds.n /\ odds.n <= 300, F0_3,
                     Part("Odds HT", odds.n, <<>>))
    IN  IF IsException(volume) THEN Raise(volume.t)
        ELSE IF ~Truthy(volume) \/ ~Truthy(odds) \/ volume.n < 10000 THEN NoCandidate
        ELSE With(a2, LAMBDA acc :
            IF FGe(acc.score, F0_4)
            THEN Candidate(BettingOpportunity(TRUE, market_name,
                     <<"P", "r", "i", "m", "e", "i", "r", "o", " ", "T", "e", "m", "p", "o">>,
                     "Half Time", acc.parts,
                     get_confidence_level(thresholds, acc.score), betfair_url,
                     VolumeLabel(volume), odds), acc.score)
            ELSE NoCandidate))

\* _analyze_half_markets with the floor 0.3
analyze_half_markets_floor(thresholds, market_name, data, betfair_url) ==
    With(Kairos_parse_volume(data.volume), LAMBDA volume :
    LET odds == data.odds
        a1 == Credit(Zero, volume.n > 20000, F0_25,
                     Part("Volume HT", volume.n, <<>>))
        a2 == Credit(a1, 150 <= odds.n /\ odds.n <= 300, F0_3,
                     Part("Odds HT", odds.n, <<>>))
    IN  IF IsException(volume) THEN Raise(volume.t)
        ELSE IF ~Truthy(volume) \/ ~Truthy(odds) \/ volume.n < 10000 THEN NoCandidate
        ELSE With(a2, LAMBDA acc :
            IF FGe(acc.score, F0_3)
            THEN Candidate(BettingOpportunity(TRUE, market_name,
                     <<"P", "r", "i", "m", "e", "i", "r", "o", " ", "T", "e", "m", "p", "o">>,
                     "Half Time", acc.parts,
                     get_confidence_level(thresholds, acc.score), betfair_url,
                     VolumeLabel(volume), odds), acc.score)
            ELSE NoCandidate))

\* KairosAnalyzer._analyze_half_markets
analyze_half_markets(thresholds, market_name, data, betfair_url) ==
    With(Kairos_parse_volume(data.volume), LAMBDA volume :
    LET odds == data.odds
        a1 == Credit(Zero, volume.n > 20000, F0_25,
                     Part("Volume HT", volume.n, <<>>))
        a2 == Credit(a1, 150 <= odds.n /\ odds.n <= 300, F0_3,
                     Part("Odds HT", odds.n, <<>>))
    IN  IF IsException(volume) THEN Raise(volume.t)
        ELSE IF ~Truthy(volume) \/ ~Truthy(odds) \/ volume.n < 10000 THEN NoCandidate
        ELSE With(a2, LAMBDA acc :
            IF FGe(acc.score, F0_4)
            THEN Candidate(BettingOpportunity(TRUE, market_name,
                     <<"P", "r", "i", "m", "e", "i", "r", "o", " ", "T", "e", "m", "p", "o">>,
                     "Half Time", acc.parts,
                     get_confidence_level(thresholds, acc.score), betfair_url,
                     VolumeLabel(volume), odds), acc.score)
            ELSE NoCandidate))

\* _analyze_single_market with the test for 'Half' first
analyze_single_market_half_first(thresholds, market) ==
    With(extract_market_data(market.selections), LAMBDA market_data :
    LET market_name == NameOrEmpty(market)
        betfair_url == market.betfair_url
    IN  IF Contains(market_name, S_Half)
        THEN analyze_half_markets(thresholds, market_name, market_data, betfair_url)
        ELSE IF Contains(market_name, S_MatchOdds)
        THEN analyze_match_odds(thresholds, market_name, market_data, betfair_url)
        ELSE IF Contains(market_name, S_OverUnder)
        THEN analyze_over_under(thresholds, market_name, market_data, betfair_url)
        ELSE IF Contains(market_name, S_BTTS)
        THEN analyze_btts(thresholds, market_name, market_data, betfair_url)
        ELSE NoCandidate)

\* KairosAnalyzer._analyze_single_market
analyze_single_market(thresholds, market) ==
    With(extract_market_data(market.selections), LAMBDA market_data :
    LET market_name == NameOrEmpty(market)
        betfair_url == market.betfair_url
    IN  IF Contains(market_name, S_MatchOdds)
        THEN analyze_match_odds(thresholds, market_name, market_data, betfair_url)
        ELSE IF Contains(market_name, S_OverUnder)
        THEN analyze_over_under(thresholds, market_name, market_data, betfair_url)
        ELSE IF Contains(market_name, S_BTTS)
        THEN analyze_btts(thresholds, market_name, market_data, betfair_url)
        ELSE IF Contains(market_name, S_Half)
        THEN analyze_half_markets(thresholds, market_name, market_data, betfair_url)
        ELSE NoCandidate)

\* The list "opportunities" that analyze_markets builds, when its loop completes
RECURSIVE Opportunities(_, _)
Opportunities(thresholds, market_data) ==
    IF market_data = <<>> THEN <<>>
    ELSE With(analyze_single_market(thresholds, Head(market_data)),
              LAMBDA opportunity :
              (IF opportunity.some THEN <<opportunity>> ELSE <<>>)
              \o Opportunities(thresholds, Tail(market_data)))

\* A max that replaces the running best by an equal key too (last-seen wins)
RECURSIVE MaxByScore_last(_, _)
MaxByScore_last(best, rest) ==
    IF rest = <<>> THEN best
    ELSE MaxByScore_last(IF FGe(Head(rest).score, best.score) THEN Head(rest) ELSE best,
                         Tail(rest))

\* The exception that ends the loop of analyze_markets: that of the first
\* market whose rule raises, "none" when the loop completes
RECURSIVE FirstException(_, _)
FirstException(thresholds, market_data) ==
    IF market_data = <<>> THEN "none"
    ELSE With(analyze_single_market(thresholds, Head(market_data)),
              LAMBDA opportunity :
              IF opportunity.raised # "none" THEN opportunity.raised
              ELSE FirstException(thresholds, Tail(market_data)))

\* max(opportunities, key=lambda x: x[1]): the running best is replaced only
\* by a strictly greater key
RECURSIVE MaxByScore(_, _)
MaxByScore(best, rest) ==
    IF rest = <<>> THEN best
    ELSE MaxByScore(IF FGt(Head(rest).score, best.score) THEN Head(rest) ELSE best,
                    Tail(rest))

\* analyze_markets without its "if not market_data" return
analyze_markets_no_empty_test(thresholds, market_data) ==
    With(Opportunities(thresholds, market_data), LAMBDA opportunities :
         IF opportunities # <<>>
         THEN MaxByScore(Head(opportunities), Tail(opportunities)).opp
         ELSE NotFound("nao foram identificadas oportunidades claras"))

\* KairosAnalyzer.analyze_markets
analyze_markets(thresholds, market_data) ==
    IF market_data = <<>> THEN NotFound("Nenhum dado de mercado disponivel")
    ELSE With(Opportunities(thresholds, market_data), LAMBDA opportunities :
              IF opportunities # <<>>
              THEN MaxByScore(Head(opportunities), Tail(opportunities)).opp
              ELSE NotFound("nao foram identificadas oportunidades claras"))

\* A filter that hands every market to the deep scorer
filter_markets_with_signals_all(market_data, signals) == market_data

\* KairosAnalyzer._filter_markets_with_signals: market.get('market_name') is
\* None for a market without the key, and None is in no set of signal names
filter_markets_with_signals(market_data, signals) ==
    LET signal_markets == {signals[i].market_name : i \in 1..Len(signals)}
    IN  SelectSeq(market_data,
                  LAMBDA market : market.has_name /\ market.market_name \in signal_markets)

\* ------------------------------------------------------------ Summary Builder

\* One element of summary_parts: what the line says and the values it embeds
SummaryLine(tag, v) == [tag |-> tag, v |-> v]

\* The type_name table of get_analysis_summary, with the type itself as default
TypeName(signal_type) ==
    IF signal_type = "money_way" THEN "Money Way (Alto Volume)"
    ELSE IF signal_type = "drop_odds" THEN "Drop Odds (Queda de Odds)"
    ELSE IF signal_type = "sharp_bet" THEN "Sharp Bet (Dinheiro Subito)"
    ELSE signal_type

\* signal_counts[signal.signal_type] = signal_counts.get(signal.signal_type, 0) + 1
\* for every signal: a dict keeps its keys in the order of first insertion
RECURSIVE SignalCounts(_, _)
SignalCounts(signal_counts, signals) ==
    IF signals = <<>> THEN signal_counts
    ELSE With(Head(signals).signal_type, LAMBDA t :
         With({i \in 1..Len(signal_counts) : signal_counts[i].signal_type = t}, LAMBDA at :
         With(IF at = {}
              THEN Append(signal_counts, [signal_type |-> t, count |-> 1])
              ELSE [i \in 1..Len(signal_counts) |->
                       IF i \in at
                       THEN [signal_counts[i] EXCEPT !.count = @ + 1]
                       ELSE signal_counts[i]],
              LAMBDA counted : SignalCounts(counted, Tail(signals)))))

\* A strong-signal test that leaves out the signals of strength 0.8
StrongSignals_gt(signals) == SelectSeq(signals, LAMBDA s : FGt(s.strength, F0_8))

\* strong_signals = [s for s in signals if s.strength >= 0.8]
StrongSignals(signals) == SelectSeq(signals, LAMBDA s : FGe(s.strength, F0_8))

\* A verdict that shows the opportunity whatever its found flag
DeepVerdict_always_found(opportunity) ==
    <<SummaryLine("deep_header", <<>>),
      SummaryLine("found_header", <<>>),
      SummaryLine("market", <<opportunity.market>>),
      SummaryLine("selection", <<opportunity.selection>>),
      SummaryLine("confidence", <<opportunity.confidence_level>>),
      SummaryLine("justification", <<opportunity.justification>>)>>

\* The deep-analysis block of get_analysis_summary; the callers always pass
\* an opportunity, so "opportunity and opportunity.found" is its found flag
DeepVerdict(opportunity) ==
    <<SummaryLine("deep_header", <<>>)>> \o
    (IF opportunity.found
     THEN <<SummaryLine("found_header", <<>>),
            SummaryLine("market", <<opportunity.market>>),
            SummaryLine("selection", <<opportunity.selection>>),
            SummaryLine("confidence", <<opportunity.confidence_level>>),
            SummaryLine("justification", <<opportunity.justification>>)>>
     ELSE <<SummaryLine("not_found", <<>>)>>)

\* KairosAnalyzer.get_analysis_summary: summary_parts, which the method joins
\* with line breaks
get_analysis_summary(signals, opportunity) ==
    With(SignalCounts(<<>>, signals), LAMBDA signal_counts :
    With(StrongSignals(signals), LAMBDA strong_signals :
    LET top == SubSeq(strong_signals, 1,
                      IF Len(strong_signals) < 3 THEN Len(strong_signals) ELSE 3)
    IN  (IF signals # <<>>
         THEN <<SummaryLine("signals_header", <<>>)>>
              \o [i \in 1..Len(signal_counts) |->
                     SummaryLine("count", <<TypeName(signal_counts[i].signal_type),
                                            signal_counts[i].count>>)]
              \o (IF strong_signals # <<>>
                  THEN <<SummaryLine("strong_header", <<>>)>>
                       \o [i \in 1..Len(top) |->
                              SummaryLine("strong", <<top[i].market_name,
                                                      top[i].description>>)]
                  ELSE <<>>)
         ELSE <<>>)
        \o DeepVerdict(opportunity)))

\* ------------------------------------------------------------- Summary text

\* A test that never takes the no-signal return
NoSignalsFound_never(s) == FALSE

\* "if not signals"
NoSignalsFound(s) == s = <<>>

\* The characters outside ASCII are written as tokens: "c," is c with cedilla,
\* "a~" a with tilde, "a'" a with acute accent, "A'" its capital, "(bullet)" the
\* bullet, EUR the euro sign, and the pictographs go by their names.

NL == "\n"

\* '(magnifier) **SINAIS DETECTADOS (Analise Preliminar):**'
T_SignalsHeader ==
    <<"(magnifier)", " ", "*", "*", "S", "I", "N", "A", "I", "S", " ", "D", "E", "T", "E",
      "C", "T", "A", "D", "O", "S", " ", "(", "A", "n", "a'", "l", "i", "s", "e", " ", "P",
      "r", "e", "l", "i", "m", "i", "n", "a", "r", ")", ":", "*", "*">>

\* '* '
T_Bullet ==
    <<"(bullet)", " ">>

\* ': '
T_Colon ==
    <<":", " ">>

\* ' mercado(s)'
T_Mercados ==
    <<" ", "m", "e", "r", "c", "a", "d", "o", "(", "s", ")">>

\* 'Money Way (Alto Volume)'
T_MoneyWay ==
    <<"M", "o", "n", "e", "y", " ", "W", "a", "y", " ", "(", "A", "l", "t", "o", " ", "V",
      "o", "l", "u", "m", "e", ")">>

\* 'Drop Odds (Queda de Odds)'
T_DropOdds ==
    <<"D", "r", "o", "p", " ", "O", "d", "d", "s", " ", "(", "Q", "u", "e", "d", "a", " ",
      "d", "e", " ", "O", "d", "d", "s", ")">>

\* 'Sharp Bet (Dinheiro Subito)'
T_SharpBet ==
    <<"S", "h", "a", "r", "p", " ", "B", "e", "t", " ", "(", "D", "i", "n", "h", "e", "i",
      "r", "o", " ", "S", "u'", "b", "i", "t", "o", ")">>

\* '\n(siren) **SINAIS FORTES:**'
T_StrongHeader ==
    <<"\n", "(siren)", " ", "*", "*", "S", "I", "N", "A", "I", "S", " ", "F", "O", "R",
      "T", "E", "S", ":", "*", "*">>

\* '\n(brain) **ANALISE PROFUNDA (IA):**'
T_DeepHeader ==
    <<"\n", "(brain)", " ", "*", "*", "A", "N", "A'", "L", "I", "S", "E", " ", "P", "R",
      "O", "F", "U", "N", "D", "A", " ", "(", "I", "A", ")", ":", "*", "*">>

\* '(check) **OPORTUNIDADE IDENTIFICADA**'
T_FoundHeader ==
    <<"(check)", " ", "*", "*", "O", "P", "O", "R", "T", "U", "N", "I", "D", "A", "D", "E",
      " ", "I", "D", "E", "N", "T", "I", "F", "I", "C", "A", "D", "A", "*", "*">>

\* '* Mercado: '
T_Mercado ==
    <<"(bullet)", " ", "M", "e", "r", "c", "a", "d", "o", ":", " ">>

\* '* Selecao: '
T_Selecao ==
    <<"(bullet)", " ", "S", "e", "l", "e", "c,", "a~", "o", ":", " ">>

\* '* Confianca: '
T_Confianca ==
    <<"(bullet)", " ", "C", "o", "n", "f", "i", "a", "n", "c,", "a", ":", " ">>

\* '* Justificativa: '
T_Justificativa ==
    <<"(bullet)", " ", "J", "u", "s", "t", "i", "f", "i", "c", "a", "t", "i", "v", "a",
      ":", " ">>

\* '(cross) Nenhuma oportunidade clara identificada apos analise profunda'
T_NotFound ==
    <<"(cross)", " ", "N", "e", "n", "h", "u", "m", "a", " ", "o", "p", "o", "r", "t", "u",
      "n", "i", "d", "a", "d", "e", " ", "c", "l", "a", "r", "a", " ", "i", "d", "e", "n",
      "t", "i", "f", "i", "c", "a", "d", "a", " ", "a", "p", "o'", "s", " ", "a", "n",
      "a'", "l", "i", "s", "e", " ", "p", "r", "o", "f", "u", "n", "d", "a">>

\* 'Alto'
T_Alto ==
    <<"A", "l", "t", "o">>

\* 'Medio'
T_Medio ==
    <<"M", "e'", "d", "i", "o">>

\* 'Baixo'
T_Baixo ==
    <<"B", "a", "i", "x", "o">>

\* 'Volume muito alto: '
T_VolumeMuitoAlto ==
    <<"V", "o", "l", "u", "m", "e", " ", "m", "u", "i", "t", "o", " ", "a", "l", "t", "o",
      ":", " ">>

\* 'Volume alto: '
T_VolumeAlto ==
    <<"V", "o", "l", "u", "m", "e", " ", "a", "l", "t", "o", ":", " ">>

\* 'Volume significativo: '
T_VolumeSignificativo ==
    <<"V", "o", "l", "u", "m", "e", " ", "s", "i", "g", "n", "i", "f", "i", "c", "a", "t",
      "i", "v", "o", ":", " ">>

\* 'EUR (>'
T_EurGt ==
    <<"EUR", " ", "(", ">">>

\* 'EUR)'
T_EurClose ==
    <<"EUR", ")">>

\* 'Queda major nas odds: -'
T_QuedaMajor ==
    <<"Q", "u", "e", "d", "a", " ", "m", "a", "j", "o", "r", " ", "n", "a", "s", " ", "o",
      "d", "d", "s", ":", " ", "-">>

\* 'Queda significativa: -'
T_QuedaSignificativa ==
    <<"Q", "u", "e", "d", "a", " ", "s", "i", "g", "n", "i", "f", "i", "c", "a", "t", "i",
      "v", "a", ":", " ", "-">>

\* 'Queda detectada: -'
T_QuedaDetectada ==
    <<"Q", "u", "e", "d", "a", " ", "d", "e", "t", "e", "c", "t", "a", "d", "a", ":", " ",
      "-">>

\* '% (>'
T_PctGt ==
    <<"%", " ", "(", ">">>

\* '%)'
T_PctClose ==
    <<"%", ")">>

\* 'Possivel sharp bet: '
T_PossivelSharp ==
    <<"P", "o", "s", "s", "i'", "v", "e", "l", " ", "s", "h", "a", "r", "p", " ", "b", "e",
      "t", ":", " ">>

\* 'Movimento suspeito: '
T_MovimentoSuspeito ==
    <<"M", "o", "v", "i", "m", "e", "n", "t", "o", " ", "s", "u", "s", "p", "e", "i", "t",
      "o", ":", " ">>

\* 'EUR em mercado ao vivo'
T_EmMercadoAoVivo ==
    <<"EUR", " ", "e", "m", " ", "m", "e", "r", "c", "a", "d", "o", " ", "a", "o", " ",
      "v", "i", "v", "o">>

\* 'Match Odds: '
T_RuleMatchOdds ==
    <<"M", "a", "t", "c", "h", " ", "O", "d", "d", "s", ":", " ">>

\* 'Over/Under: '
T_RuleOverUnder ==
    <<"O", "v", "e", "r", "/", "U", "n", "d", "e", "r", ":", " ">>

\* 'BTTS: '
T_RuleBTTS ==
    <<"B", "T", "T", "S", ":", " ">>

\* 'Half Time: '
T_RuleHalf ==
    <<"H", "a", "l", "f", " ", "T", "i", "m", "e", ":", " ">>

\* '. '
T_PartSep ==
    <<".", " ">>

\* 'Alto volume de '
T_AltoVolumeDe ==
    <<"A", "l", "t", "o", " ", "v", "o", "l", "u", "m", "e", " ", "d", "e", " ">>

\* 'EUR indica forte interesse'
T_IndicaForteInteresse ==
    <<"EUR", " ", "i", "n", "d", "i", "c", "a", " ", "f", "o", "r", "t", "e", " ", "i",
      "n", "t", "e", "r", "e", "s", "s", "e">>

\* 'Volume moderado de '
T_VolumeModeradoDe ==
    <<"V", "o", "l", "u", "m", "e", " ", "m", "o", "d", "e", "r", "a", "d", "o", " ", "d",
      "e", " ">>

\* 'Odds de '
T_OddsDe ==
    <<"O", "d", "d", "s", " ", "d", "e", " ">>

\* ' em range de valor'
T_EmRangeDeValor ==
    <<" ", "e", "m", " ", "r", "a", "n", "g", "e", " ", "d", "e", " ", "v", "a", "l", "o",
      "r">>

\* 'Mercado ao vivo com potencial de movimento'
T_MercadoAoVivo ==
    <<"M", "e", "r", "c", "a", "d", "o", " ", "a", "o", " ", "v", "i", "v", "o", " ", "c",
      "o", "m", " ", "p", "o", "t", "e", "n", "c", "i", "a", "l", " ", "d", "e", " ", "m",
      "o", "v", "i", "m", "e", "n", "t", "o">>

\* 'Volume expressivo de '
T_VolumeExpressivoDe ==
    <<"V", "o", "l", "u", "m", "e", " ", "e", "x", "p", "r", "e", "s", "s", "i", "v", "o",
      " ", "d", "e", " ">>

\* 'Odds equilibradas de '
T_OddsEquilibradasDe ==
    <<"O", "d", "d", "s", " ", "e", "q", "u", "i", "l", "i", "b", "r", "a", "d", "a", "s",
      " ", "d", "e", " ">>

\* 'Linha '
T_Linha ==
    <<"L", "i", "n", "h", "a", " ">>

\* ' com boa liquidez'
T_ComBoaLiquidez ==
    <<" ", "c", "o", "m", " ", "b", "o", "a", " ", "l", "i", "q", "u", "i", "d", "e", "z">>

\* 'Dinamica ao vivo favoravel'
T_DinamicaAoVivo ==
    <<"D", "i", "n", "a^", "m", "i", "c", "a", " ", "a", "o", " ", "v", "i", "v", "o", " ",
      "f", "a", "v", "o", "r", "a'", "v", "e", "l">>

\* 'Volume de '
T_VolumeDe ==
    <<"V", "o", "l", "u", "m", "e", " ", "d", "e", " ">>

\* 'EUR no BTTS'
T_NoBTTS ==
    <<"EUR", " ", "n", "o", " ", "B", "T", "T", "S">>

\* 'Odds atrativas de '
T_OddsAtrativasDe ==
    <<"O", "d", "d", "s", " ", "a", "t", "r", "a", "t", "i", "v", "a", "s", " ", "d", "e",
      " ">>

\* 'Volume HT de '
T_VolumeHTDe ==
    <<"V", "o", "l", "u", "m", "e", " ", "H", "T", " ", "d", "e", " ">>

\* 'Odds HT de '
T_OddsHTDe ==
    <<"O", "d", "d", "s", " ", "H", "T", " ", "d", "e", " ">>

\* f"{signal.description}" of the detectors, for the default analyzer (its
\* drop thresholds 5, 10 and 20 are integers; a drop is a float)
DescriptionText(d) ==
    CASE d.text = "Volume muito alto" ->
            T_VolumeMuitoAlto \o IntStr(d.value) \o T_EurGt \o IntStr(d.threshold)
            \o T_EurClose
      [] d.text = "Volume alto" ->
            T_VolumeAlto \o IntStr(d.value) \o T_EurGt \o IntStr(d.threshold)
            \o T_EurClose
      [] d.text = "Volume significativo" ->
            T_VolumeSignificativo \o IntStr(d.value) \o T_EurGt \o IntStr(d.threshold)
            \o T_EurClose
      [] d.text = "Queda major nas odds" ->
            T_QuedaMajor \o PyStr(FloatV(d.value)) \o T_PctGt
            \o IntStr(d.threshold \div 100) \o T_PctClose
      [] d.text = "Queda significativa" ->
            T_QuedaSignificativa \o PyStr(FloatV(d.value)) \o T_PctGt
            \o IntStr(d.threshold \div 100) \o T_PctClose
      [] d.text = "Queda detectada" ->
            T_QuedaDetectada \o PyStr(FloatV(d.value)) \o T_PctGt
            \o IntStr(d.threshold \div 100) \o T_PctClose
      [] d.text = "Possivel sharp bet" ->
            T_PossivelSharp \o IntStr(d.value) \o T_EmMercadoAoVivo
      [] OTHER ->
            T_MovimentoSuspeito \o IntStr(d.value) \o T_EmMercadoAoVivo

\* One sentence of justification_parts
PartText(p) ==
    CASE p.tag = "Alto volume" -> T_AltoVolumeDe \o IntStr(p.n) \o T_IndicaForteInteresse
      [] p.tag = "Volume moderado" -> T_VolumeModeradoDe \o IntStr(p.n) \o <<EUR>>
      [] p.tag = "Odds em range de valor" ->
            T_OddsDe \o PyStr(FloatV(p.n)) \o T_EmRangeDeValor
      [] p.tag = "Mercado ao vivo" -> T_MercadoAoVivo
      [] p.tag = "Volume expressivo" -> T_VolumeExpressivoDe \o IntStr(p.n) \o <<EUR>>
      [] p.tag = "Odds equilibradas" -> T_OddsEquilibradasDe \o PyStr(FloatV(p.n))
      [] p.tag = "Linha com boa liquidez" -> T_Linha \o p.s \o T_ComBoaLiquidez
      [] p.tag = "Dinamica ao vivo favoravel" -> T_DinamicaAoVivo
      [] p.tag = "Volume no BTTS" -> T_VolumeDe \o IntStr(p.n) \o T_NoBTTS
      [] p.tag = "Odds atrativas" -> T_OddsAtrativasDe \o PyStr(FloatV(p.n))
      [] p.tag = "Volume HT" -> T_VolumeHTDe \o IntStr(p.n) \o <<EUR>>
      [] OTHER -> T_OddsHTDe \o PyStr(FloatV(p.n))

\* sep.join(texts)
RECURSIVE Join(_, _)
Join(sep, texts) ==
    IF texts = <<>> THEN <<>>
    ELSE IF Len(texts) = 1 THEN texts[1]
    ELSE texts[1] \o sep \o Join(sep, Tail(texts))

\* f"<rule>: {'. '.join(justification_parts)}." of a found opportunity
JustificationText(justification) ==
    (CASE justification.rule = "Match Odds" -> T_RuleMatchOdds
       [] justification.rule = "Over/Under" -> T_RuleOverUnder
       [] justification.rule = "BTTS" -> T_RuleBTTS
       [] OTHER -> T_RuleHalf)
    \o Join(T_PartSep, [i \in 1..Len(justification.parts) |->
                           PartText(justification.parts[i])])
    \o <<".">>

\* The three names of the type_name table
TypeNameText(type_name) ==
    CASE type_name = "Money Way (Alto Volume)" -> T_MoneyWay
      [] type_name = "Drop Odds (Queda de Odds)" -> T_DropOdds
      [] OTHER -> T_SharpBet

\* "Alto", "Medio" (with its accent) or "Baixo"
LevelText(confidence_level) ==
    CASE confidence_level = "Alto" -> T_Alto
      [] confidence_level = "Medio" -> T_Medio
      [] OTHER -> T_Baixo

\* The text of one element of summary_parts
SummaryLineText(line) ==
    CASE line.tag = "signals_header" -> T_SignalsHeader
      [] line.tag = "count" ->
            T_Bullet \o TypeNameText(line.v[1]) \o T_Colon \o IntStr(line.v[2])
            \o T_Mercados
      [] line.tag = "strong_header" -> T_StrongHeader
      [] line.tag = "strong" ->
            T_Bullet \o line.v[1] \o T_Colon \o DescriptionText(line.v[2])
      [] line.tag = "deep_header" -> T_DeepHeader
      [] line.tag = "found_header" -> T_FoundHeader
      [] line.tag = "market" -> T_Mercado \o line.v[1]
      [] line.tag = "selection" -> T_Selecao \o line.v[1]
      [] line.tag = "confidence" -> T_Confianca \o LevelText(line.v[1])
      [] line.tag = "justification" -> T_Justificativa \o JustificationText(line.v[1])
      [] OTHER -> T_NotFound

\* "\n".join(summary_parts): the str get_analysis_summary returns
SummaryText(summary_parts) ==
    Join(<<NL>>, [i \in 1..Len(summary_parts) |-> SummaryLineText(summary_parts[i])])

\* KairosAnalyzer.analyze_markets_two_tier: the signals and the opportunity,
\* or the exception that leaves the deep scorer
analyze_markets_two_tier(analyzer, thresholds, market_data) ==
    With(analyze_markets_preliminary(analyzer, market_data), LAMBDA found_signals :
        IF NoSignalsFound(found_signals)
        THEN [raised |-> "none", signals |-> <<>>,
              opportunity |->
                  NotFound("Analise preliminar nao detectou sinais significativos")]
        ELSE With(filter_markets_with_signals(market_data, found_signals), LAMBDA filtered :
             With(FirstException(thresholds, filtered), LAMBDA exc :
                 IF exc # "none"
                 THEN [raised |-> exc, signals |-> found_signals,
                       opportunity |-> NotFound("")]
                 ELSE [raised |-> "none", signals |-> found_signals,
                       opportunity |-> analyze_markets(thresholds, filtered)])))

\* analyze_betting_opportunity: a new KairosAnalyzer, its two-tier analysis
\* and the summary text of the result
analyze_betting_opportunity(market_data) ==
    With(analyze_markets_two_tier(PreliminaryAnalyzer(NoTierConfig),
                                  ConfidenceThresholds, market_data), LAMBDA r :
        IF r.raised # "none" THEN [raised |-> r.raised, text |-> <<>>]
        ELSE [raised |-> "none",
              text |-> SummaryText(get_analysis_summary(r.signals, r.opportunity))])

\* ------------------------------------------------------- Opportunity checker

\* opportunity_indicators of check_ai_opportunity ('oportunidade identificada',
\* 'valor encontrado', ...)
opportunity_indicators ==
    << <<"o", "p", "o", "r", "t", "u", "n", "i", "d", "a", "d", "e", " ", "i", "d", "e",
        "n", "t", "i", "f", "i", "c", "a", "d", "a">>,
      <<"v", "a", "l", "o", "r", " ", "e", "n", "c", "o", "n", "t", "r", "a", "d", "o">>,
      <<"d", "i", "s", "c", "r", "e", "p", "a^", "n", "c", "i", "a", " ", "d", "e", "t",
        "e", "c", "t", "a", "d", "a">>,
      <<"a", "r", "b", "i", "t", "r", "a", "g", "e", "m", " ", "p", "o", "s", "s", "i'",
        "v", "e", "l">>,
      <<"c", "o", "n", "f", "i", "a", "n", "c,", "a", ":", " ", "a", "l", "t", "a">>,
      <<"r", "e", "c", "o", "m", "e", "n", "d", "a", "c,", "a~", "o", ":", " ", "a", "p",
        "o", "s", "t", "a", "r">>,
      <<"s", "i", "n", "a", "l", " ", "p", "o", "s", "i", "t", "i", "v", "o">>,
      <<"m", "e", "r", "c", "a", "d", "o", " ", "f", "a", "v", "o", "r", "a'", "v", "e", "l">>,
      <<"o", "p", "o", "r", "t", "u", "n", "i", "d", "a", "d", "e", " ", "e", "n", "c",
        "o", "n", "t", "r", "a", "d", "a", ":", " ", "s", "i", "m">> >>

\* low_confidence_indicators of check_ai_opportunity ('confianca: baixa',
\* 'dados insuficientes', ...)
low_confidence_indicators ==
    << <<"c", "o", "n", "f", "i", "a", "n", "c,", "a", ":", " ", "b", "a", "i", "x", "a">>,
      <<"d", "a", "d", "o", "s", " ", "i", "n", "s", "u", "f", "i", "c", "i", "e", "n",
        "t", "e", "s">>,
      <<"s", "e", "m", " ", "o", "p", "o", "r", "t", "u", "n", "i", "d", "a", "d", "e",
        " ", "c", "l", "a", "r", "a">>,
      <<"m", "e", "r", "c", "a", "d", "o", " ", "e", "q", "u", "i", "l", "i", "b", "r",
        "a", "d", "o">>,
      <<"a", "g", "u", "a", "r", "d", "a", "r", " ", "m", "a", "i", "s", " ", "d", "a",
        "d", "o", "s">>,
      <<"o", "p", "o", "r", "t", "u", "n", "i", "d", "a", "d", "e", " ", "e", "n", "c",
        "o", "n", "t", "r", "a", "d", "a", ":", " ", "n", "a~", "o">> >>

\* 'confianca'
W_confianca ==
    <<"c", "o", "n", "f", "i", "a", "n", "c,", "a">>

\* 'confidence'
W_confidence ==
    <<"c", "o", "n", "f", "i", "d", "e", "n", "c", "e">>

\* 'mercado sugerido'
W_mercado_sugerido ==
    <<"m", "e", "r", "c", "a", "d", "o", " ", "s", "u", "g", "e", "r", "i", "d", "o">>

\* 'selecao'
W_selecao ==
    <<"s", "e", "l", "e", "c,", "a~", "o">>

\* 'justificativa'
W_justificativa ==
    <<"j", "u", "s", "t", "i", "f", "i", "c", "a", "t", "i", "v", "a">>

\* 'alta'
W_alta ==
    <<"a", "l", "t", "a">>

\* 'media'
W_media ==
    <<"m", "e'", "d", "i", "a">>

\* 'baixa'
W_baixa ==
    <<"b", "a", "i", "x", "a">>

\* The characters of the regular expression class [:\s] that texts hold
ColonOrSpace == {":", " ", NL, "\t"}

\* The positions where word ends in text
EndsOf(text, word) ==
    {e \in Len(word)..Len(text) : SubSeq(text, e - Len(word) + 1, e) = word}

\* The end of the run of characters of class C that starts after position e
RECURSIVE RunEnd(_, _, _)
RunEnd(text, e, C) ==
    IF e < Len(text) /\ text[e + 1] \in C THEN RunEnd(text, e + 1, C) ELSE e

DigitChars == {Digits[i] : i \in 1..10}

\* The pattern ([0-9]+(?:\.[0-9]+)?)% from position a: the position of its
\* '%', or 0 when it does not match there
NumberPercentAt(text, a) ==
    With(RunEnd(text, a - 1, DigitChars), LAMBDA b :
        IF b < a \/ b >= Len(text) THEN 0
        ELSE IF text[b + 1] = "%" THEN b + 1
        ELSE IF text[b + 1] # "." THEN 0
        ELSE With(RunEnd(text, b + 1, DigitChars), LAMBDA c :
                 IF c > b + 1 /\ c < Len(text) /\ text[c + 1] = "%" THEN c + 1 ELSE 0))

\* float() of the number that ends before position p, to two decimals, in
\* hundredths
NumberBefore(text, a, p) ==
    With(SubSeq(text, a, p - 1), LAMBDA number :
    With(FirstDot(number), LAMBDA dot :
        IF dot = 0 THEN 100 * DigitsVal(number)
        ELSE 100 * DigitsVal(SubSeq(number, 1, dot - 1))
             + DigitsVal(SubSeq(SubSeq(number, dot + 1, Len(number)) \o <<"0", "0">>,
                                1, 2))))

\* re.search(word + r'[:\s]*([0-9]+(?:\.[0-9]+)?)%', text): the number of the
\* leftmost match, or None
NumberAfter(text, word) ==
    With({e \in EndsOf(text, word) :
             NumberPercentAt(text, RunEnd(text, e, ColonOrSpace) + 1) # 0}, LAMBDA ends :
        IF ends = {} THEN NoneV
        ELSE With(CHOOSE e \in ends : \A other \in ends : e <= other, LAMBDA e :
             With(RunEnd(text, e, ColonOrSpace) + 1, LAMBDA a :
                  FloatV(NumberBefore(text, a, NumberPercentAt(text, a))))))

\* re.search(r'([0-9]+(?:\.[0-9]+)?)%\s*' + word, text): the number of the
\* leftmost match, or None
NumberBeforeWord(text, word) ==
    With({a \in 1..Len(text) :
             /\ NumberPercentAt(text, a) # 0
             /\ RunEnd(text, NumberPercentAt(text, a), {" ", NL, "\t"}) + Len(word)
                    \in EndsOf(text, word)}, LAMBDA starts :
        IF starts = {} THEN NoneV
        ELSE With(CHOOSE a \in starts : \A other \in starts : a <= other, LAMBDA a :
                  FloatV(NumberBefore(text, a, NumberPercentAt(text, a)))))

\* re.search(word + r'[:\s]*([^\n]+)', text) matches
LineAfter(text, word) ==
    \E e \in EndsOf(text, word) :
        \E p \in (e + 1)..Len(text) :
            /\ text[p] # NL
            /\ \A q \in (e + 1)..(p - 1) : text[q] \in ColonOrSpace

\* re.search(r'justificativa[^:]*[:\s]*([^\n]+...)(?=\n\d+\.|$)', text,
\* IGNORECASE | MULTILINE) matches: the group ends at the end of a line
JustificationAfter(text) ==
    \E e \in EndsOf(Lower(text), W_justificativa) :
        \E p \in (e + 1)..Len(text) :
            /\ text[p] # NL
            /\ \E m \in e..(p - 1) :
                   /\ \A q \in (e + 1)..m : text[q] # ":"
                   /\ \A q \in (m + 1)..(p - 1) : text[q] \in ColonOrSpace

\* indicator in analysis_lower, for some indicator of the list
AnyIndicator(indicators, analysis_lower) ==
    \E k \in 1..Len(indicators) : Contains(analysis_lower, indicators[k])

\* check_ai_opportunity without the lower() of the text
check_ai_opportunity_case_sensitive(analysis_text) ==
    IF analysis_text = <<>> THEN [has_opportunity |-> FALSE, opportunity_details |-> <<>>]
    ELSE With(analysis_text, LAMBDA analysis_lower :
         IF AnyIndicator(low_confidence_indicators, analysis_lower)
         THEN [has_opportunity |-> FALSE, opportunity_details |-> <<>>]
         ELSE With((AnyIndicator(opportunity_indicators, analysis_lower)
                    \/ With(NumberAfter(analysis_lower, W_confianca), LAMBDA confidence :
                            confidence # NoneV /\ confidence.n >= 6000)),
              LAMBDA has_opportunity :
              [has_opportunity |-> has_opportunity,
               opportunity_details |->
                   IF has_opportunity
                   THEN SelectSeq(<<"suggested_market", "selection", "justification">>,
                            LAMBDA key :
                            \/ key = "suggested_market"
                               /\ LineAfter(analysis_lower, W_mercado_sugerido)
                            \/ key = "selection" /\ LineAfter(analysis_lower, W_selecao)
                            \/ key = "justification" /\ JustificationAfter(analysis_text))
                   ELSE <<>>]))

\* check_ai_opportunity: whether the text tells an opportunity, and the keys
\* of the details it extracts, in the order it extracts them
check_ai_opportunity(analysis_text) ==
    IF analysis_text = <<>> THEN [has_opportunity |-> FALSE, opportunity_details |-> <<>>]
    ELSE With(Lower(analysis_text), LAMBDA analysis_lower :
         IF AnyIndicator(low_confidence_indicators, analysis_lower)
         THEN [has_opportunity |-> FALSE, opportunity_details |-> <<>>]
         ELSE With((AnyIndicator(opportunity_indicators, analysis_lower)
                    \/ With(NumberAfter(analysis_lower, W_confianca), LAMBDA confidence :
                            confidence # NoneV /\ confidence.n >= 6000)),
              LAMBDA has_opportunity :
              [has_opportunity |-> has_opportunity,
               opportunity_details |->
                   IF has_opportunity
                   THEN SelectSeq(<<"suggested_market", "selection", "justification">>,
                            LAMBDA key :
                            \/ key = "suggested_market"
                               /\ LineAfter(analysis_lower, W_mercado_sugerido)
                            \/ key = "selection" /\ LineAfter(analysis_lower, W_selecao)
                            \/ key = "justification" /\ JustificationAfter(analysis_text))
                   ELSE <<>>]))

\* extract_confidence_from_analysis: the float of the first pattern that
\* matches, else 80.0, 50.0 or 20.0 by the words 'alta', 'media', 'baixa',
\* else 0.0
extract_confidence_from_analysis(analysis_text) ==
    IF analysis_text = <<>> THEN FloatV(0)
    ELSE With(Lower(analysis_text), LAMBDA analysis_lower :
         With(<<NumberAfter(analysis_lower, W_confianca),
                NumberAfter(analysis_lower, W_confidence),
                NumberBeforeWord(analysis_lower, W_confianca)>>, LAMBDA matches :
              IF matches[1] # NoneV THEN matches[1]
              ELSE IF matches[2] # NoneV THEN matches[2]
              ELSE IF matches[3] # NoneV THEN matches[3]
              ELSE IF Contains(analysis_lower, W_alta) THEN FloatV(8000)
              ELSE IF Contains(analysis_lower, W_media) THEN FloatV(5000)
              ELSE IF Contains(analysis_lower, W_baixa) THEN FloatV(2000)
              ELSE FloatV(0)))

\* ----------------------------------------------------- League Tier Classifier

\* for pattern in LEAGUE_TIERS[tier]: if pattern.lower() in league_name.lower()
MatchesTier(patterns, league_name) ==
    \E i \in 1..Len(patterns) : Contains(Lower(league_name), Lower(patterns[i]))


\* LEAGUE_TIERS of config/settings.py: the tier1 and tier2 pattern lists (a
\* mixed-case tier1 pattern, and tier2 patterns that overlap it)
LEAGUE_TIERS ==
    [tier1 |-> << <<"A", "b">> >>,
     tier2 |-> << <<"b", "a">>, <<"B", " ">> >>]

\* determine_league_tier with the tier2 loop before the tier1 loop
determine_league_tier_tier2_first(league_name) ==
    IF ~Truthy(league_name) THEN "tier3"
    ELSE IF MatchesTier(LEAGUE_TIERS.tier2, league_name.s) THEN "tier2"
    ELSE IF MatchesTier(LEAGUE_TIERS.tier1, league_name.s) THEN "tier1"
    ELSE "tier3"

\* determine_league_tier
determine_league_tier(league_name) ==
    IF ~Truthy(league_name) THEN "tier3"
    ELSE IF MatchesTier(LEAGUE_TIERS.tier1, league_name.s) THEN "tier1"
    ELSE IF MatchesTier(LEAGUE_TIERS.tier2, league_name.s) THEN "tier2"
    ELSE "tier3"

\* ------------------------------------------------------------------- inputs

MaxLeagueLen == 3

MaxMarkets == 2

LeagueAlphabet == {"a", "A", "b", "B", " "}

\* Every sequence over S of length at most n
RECURSIVE SeqsUpTo(_, _)
SeqsUpTo(S, n) ==
    IF n = 0 THEN {<<>>}
    ELSE LET shorter == SeqsUpTo(S, n - 1)
         IN  shorter \cup {Append(s, x) : s \in {t \in shorter : Len(t) = n - 1}, x \in S}

\* game_data.get('league', ''): None, or any name over the alphabet
Leagues == {NoneV} \cup {StrV(s) : s \in SeqsUpTo(LeagueAlphabet, MaxLeagueLen)}

\* One league of each tier, for the calls that also take a market list
SampleLeagues == {StrV(<<"a", "B">>), StrV(<<"b", "A">>), StrV(<<"a", "a">>)}

\* config['ANALYSIS_RULES_BY_TIER']: the rules the caller passes in; the last
\* has a tier without minimum volume and two without minimum drop
RuleConfigs ==
    { [tier1 |-> TierConfig(10000, -1000), tier2 |-> TierConfig(5000, -500),
       tier3 |-> TierConfig(1000, -300)],
      [tier1 |-> TierConfig(15000, -1500), tier2 |-> TierConfig(5000, -500),
       tier3 |-> TierConfig(2000, -700)],
      [tier1 |-> TierConfig(0, 0), tier2 |-> TierConfig(5000, 0),
       tier3 |-> TierConfig(1000, -300)] }

NoRules ==
    [tier1 |-> NoTierConfig, tier2 |-> NoTierConfig, tier3 |-> NoTierConfig]

\* Market names as the scraper gives them (test_kairos.py)
N_MatchOdds ==
    <<"M", "a", "t", "c", "h", " ", "O", "d", "d", "s">>
N_OverUnder25 ==
    <<"O", "v", "e", "r", "/", "U", "n", "d", "e", "r", " ", "2", ".", "5", " ", "G",
    "o", "a", "l", "s">>
N_OverUnder15 ==
    <<"O", "v", "e", "r", "/", "U", "n", "d", "e", "r", " ", "1", ".", "5", " ", "G",
    "o", "a", "l", "s">>
N_OverUnder35 ==
    <<"O", "v", "e", "r", "/", "U", "n", "d", "e", "r", " ", "3", ".", "5", " ", "G",
    "o", "a", "l", "s">>
N_OverUnderGoals ==
    <<"O", "v", "e", "r", "/", "U", "n", "d", "e", "r", " ", "G", "o", "a", "l",
    "s">>
N_BTTS ==
    <<"B", "o", "t", "h", " ", "t", "e", "a", "m", "s", " ", "t", "o", " ", "S", "c",
    "o", "r", "e", "?">>
N_FirstHalf ==
    <<"F", "i", "r", "s", "t", " ", "H", "a", "l", "f", " ", "G", "o", "a", "l", "s",
    " ", "0", ".", "5">>
N_CorrectScore ==
    <<"C", "o", "r", "r", "e", "c", "t", " ", "S", "c", "o", "r", "e">>

\* Market names with several of the dispatch keywords, or one in another case
N_HalfMatchOdds ==
    <<"F", "i", "r", "s", "t", " ", "H", "a", "l", "f", " ", "M", "a", "t", "c", "h",
    " ", "O", "d", "d", "s">>
N_MatchOddsOverUnder ==
    <<"M", "a", "t", "c", "h", " ", "O", "d", "d", "s", " ", "a", "n", "d", " ", "O",
    "v", "e", "r", "/", "U", "n", "d", "e", "r", " ", "2", ".", "5">>
N_HalfOverUnder ==
    <<"H", "a", "l", "f", " ", "T", "i", "m", "e", " ", "O", "v", "e", "r", "/", "U",
    "n", "d", "e", "r", " ", "1", ".", "5">>
N_OverUnderBTTS ==
    <<"O", "v", "e", "r", "/", "U", "n", "d", "e", "r", " ", "2", ".", "5", " ", "a",
    "n", "d", " ", "B", "o", "t", "h", " ", "t", "e", "a", "m", "s", " ", "t", "o",
    " ", "S", "c", "o", "r", "e">>
N_HalfBTTS ==
    <<"F", "i", "r", "s", "t", " ", "H", "a", "l", "f", " ", "B", "o", "t", "h", " ",
    "t", "e", "a", "m", "s", " ", "t", "o", " ", "S", "c", "o", "r", "e">>
N_LowerMatchOdds ==
    <<"m", "a", "t", "c", "h", " ", "o", "d", "d", "s">>
N_LowerHalf ==
    <<"S", "e", "c", "o", "n", "d", " ", "h", "a", "l", "f">>

\* Selection names as the scraper gives them
K_Type ==
    <<"T", "y", "p", "e">>
K_Summ ==
    <<"S", "u", "m", "m">>
K_Odds ==
    <<"O", "d", "d", "s">>
K_Percent ==
    <<"P", "e", "r", "c", "e", "n", "t">>
K_Change ==
    <<"C", "h", "a", "n", "g", "e">>
K_Date ==
    <<"D", "a", "t", "e">>
K_Market ==
    <<"M", "a", "r", "k", "e", "t">>
K_Time ==
    <<"T", "i", "m", "e">>
K_Score ==
    <<"S", "c", "o", "r", "e">>
K_All ==
    <<"A", "l", "l">>
K_PercentMoney ==
    <<"P", "e", "r", "c", "e", "n", "t", " ", "m", "o", "n", "e", "y", " ", "o", "n",
    " ", "m", "a", "r", "k", "e", "t">>

Sel(name, value) == [name |-> name, odds |-> value]

\* A market record; has_name = FALSE when the dict has no 'market_name' key,
\* betfair_url = None when it has no links
Market(has_name, market_name, selections, betfair_url) ==
    [has_name |-> has_name, market_name |-> market_name, selections |-> selections,
     betfair_url |-> betfair_url]

\* A selection for each value that is present
OptSel(name, value) == IF value = NoneV THEN <<>> ELSE <<Sel(name, value)>>

Url == StrV(<<"b", "e", "t", "f", "a", "i", "r">>)

\* The market {Type, Summ, Odds, Percent} under a name
Mk(market_name, type, volume, odds, percent) ==
    Market(TRUE, market_name,
           OptSel(K_Type, type) \o OptSel(K_Summ, volume) \o OptSel(K_Odds, odds)
           \o OptSel(K_Percent, percent), Url)

\* "<v>EUR"
Euros(v) == StrV(IntStr(v) \o <<EUR>>)

Live == StrV(S_live)
Pre == StrV(<<"p", "r", "e">>)


\* Volumes at and around every threshold the scorer and the detector use
ScoreVolumes ==
    {0, 9999, 10000, 15000, 15001, 20000, 20001, 30000, 30001, 45000, 50000, 50001,
     75000}

SignalVolumes ==
    ScoreVolumes \cup {999, 1000, 1999, 2000, 2999, 3000, 4999, 5000, 5999, 6000,
                       11999, 12000, 14999, 19999, 29999, 59999, 60000}

\* Raw Summ values that are not "<digits>EUR": a Python int, an unparsable
\* text, thousands separators, a blank, decimals, and a text float() reads as
\* infinity
OddVolumes ==
    {IntV(45000), StrV(S_NA),
     StrV(<<"4", "5", ",", "0", "0", "0", EUR>>),
     StrV(<<"4", "5", " ", "0", "0", "0", EUR>>),
     StrV(<<"4", "5", "0", "0", "0", ".", "5", "0", EUR>>),
     StrV(<<"i", "n", "f">>)}

\* Odds (hundredths) at and around every range bound, zero, an int, a text
OddsValues ==
    {FloatV(h) : h \in {0, 149, 150, 159, 160, 179, 180, 195, 199, 200, 220, 221, 240,
                        241, 250, 251, 300, 301}}
    \cup {IntV(2), StrV(S_NA)}

Percents ==
    {StrV(<<"-", "5", "%">>), StrV(<<"-", "1", "2", "%">>), StrV(<<"6", "0", "%">>)}

MarketNames ==
    {N_MatchOdds, N_OverUnder25, N_OverUnder15, N_OverUnder35, N_OverUnderGoals, N_BTTS,
     N_FirstHalf, N_CorrectScore}

Types == {Live, Pre, NoneV}

\* Markets that vary what the scoring rules read
ScoreMarkets ==
    {Mk(name, type, volume, odds, NoneV) :
        name \in MarketNames, type \in Types,
        volume \in {Euros(v) : v \in ScoreVolumes} \cup OddVolumes \cup {NoneV},
        odds \in OddsValues \cup {NoneV}}

DispatchNames ==
    {N_HalfMatchOdds, N_MatchOddsOverUnder, N_HalfOverUnder, N_OverUnderBTTS, N_HalfBTTS,
     N_LowerMatchOdds, N_LowerHalf}

\* Markets that vary what the dispatch reads, each with a volume and odds that
\* every rule accepts, and with a volume that none does
DispatchMarkets ==
    {Mk(name, Live, Euros(v), FloatV(195), NoneV) :
        name \in MarketNames \cup DispatchNames, v \in {75000, 9999}}

\* Markets that vary what the signal detectors read
SignalMarkets ==
    {Mk(name, type, volume, FloatV(195), percent) :
        name \in {N_MatchOdds, N_CorrectScore}, type \in Types,
        volume \in {Euros(v) : v \in SignalVolumes} \cup OddVolumes \cup {NoneV},
        percent \in Percents \cup {NoneV}}

\* Percent values at and around the thresholds p, 2p and 4p of every tier
\* configuration, a zero, texts float() rejects, a text without '%', a number
DropPercents ==
    {StrV(<<"-", "1", "0", "%">>), StrV(<<"-", "7", "%">>),
     StrV(<<"-", "1", "4", "%">>), StrV(<<"-", "2", "0", "%">>),
     StrV(<<"-", "2", "8", "%">>), StrV(<<"-", "3", "%">>), StrV(<<"-", "6", "%">>),
     StrV(<<"-", "1", "5", "%">>), StrV(<<"-", "3", "0", "%">>),
     StrV(<<"-", "6", "0", "%">>), StrV(<<"-", "4", ".", "9", "9", "%">>),
     StrV(<<"-", "0", "%">>), StrV(<<"-", "%">>), StrV(<<"-", "N", "/", "A", "%">>),
     StrV(<<"1", "2", "%", "-">>), StrV(<<"-", "1", "2">>), IntV(0 - 12)}

\* Change values: absent, a text, a number (-0.15)
DropChanges == {NoneV, StrV(<<"-", "0", ".", "1", "5">>), FloatV(0 - 15)}

\* Markets that vary what the drop-odds detector reads
DropMarkets ==
    {Market(TRUE, N_CorrectScore,
            OptSel(K_Type, Pre) \o OptSel(K_Change, change) \o OptSel(K_Percent, percent),
            Url) :
        change \in DropChanges, percent \in DropPercents \cup Percents \cup {NoneV}}

\* Type values that are not the text 'live': other letter case, a trailing
\* blank, a number
OddTypes ==
    {StrV(<<"L", "i", "v", "e">>), StrV(<<"L", "I", "V", "E">>),
     StrV(<<"l", "i", "v", "e", " ">>), IntV(1)}

\* Markets that vary the type the sharp-bet detector reads
TypeMarkets ==
    {Mk(N_CorrectScore, type, Euros(v), NoneV, NoneV) :
        type \in OddTypes, v \in {9999, 10000, 19999, 20000}}

\* Selections that repeat a field with another value, an Odds selection with
\* a text, with an int, and a selection no field reads
DuplicateSelections ==
    {Sel(K_Summ, Euros(75000)), Sel(K_Summ, Euros(3000)), Sel(K_Odds, FloatV(195)),
     Sel(K_Odds, StrV(S_NA)), Sel(K_Odds, IntV(2)), Sel(K_Type, Live),
     Sel(K_Date, StrV(<<"1", "2", ":", "0", "0">>))}

\* Markets with two and with three of these selections, in every order
DuplicateMarkets ==
    {Market(TRUE, N_MatchOdds, <<a, b>>, Url) : a, b \in DuplicateSelections}
    \cup {Market(TRUE, N_MatchOdds, <<a, b, c>>, Url) : a, b, c \in DuplicateSelections}

\* Markets for the lists of several markets: candidates of every score, ties,
\* markets that signal without a candidate and the reverse, a repeated name,
\* a market without name, without selections
CoreMarkets ==
    {Mk(N_MatchOdds, Live, Euros(75000), FloatV(195), NoneV),
     Mk(N_MatchOdds, Pre, Euros(75000), FloatV(195), NoneV),
     Mk(N_MatchOdds, Live, Euros(30000), FloatV(195), NoneV),
     Mk(N_MatchOdds, Pre, Euros(3000), FloatV(195), NoneV),
     Mk(N_MatchOdds, Live, StrV(<<"4", "5", " ", "0", "0", "0", EUR>>), FloatV(195), NoneV),
     Mk(N_OverUnder25, Live, Euros(45000), FloatV(210), NoneV),
     Mk(N_OverUnder25, Live, Euros(30000), FloatV(210), NoneV),
     Mk(N_OverUnder35, Pre, Euros(45000), FloatV(200), NoneV),
     Mk(N_OverUnder25, Pre, Euros(3000), FloatV(450), StrV(<<"-", "1", "2", "%">>)),
     Mk(N_BTTS, Live, Euros(30000), FloatV(175), NoneV),
     Mk(N_FirstHalf, Live, Euros(30000), FloatV(200), NoneV),
     Mk(N_FirstHalf, Live, Euros(15000), FloatV(125), NoneV),
     Mk(N_CorrectScore, Live, Euros(75000), FloatV(195), NoneV),
     Market(FALSE, <<>>, <<Sel(K_Type, Live), Sel(K_Summ, Euros(75000)),
                           Sel(K_Odds, FloatV(195))>>, NoneV),
     Market(TRUE, N_MatchOdds, <<>>, NoneV)}

\* The core markets that differ in what the detectors read: a volume of every
\* strength, live and not, a percent, a volume that does not parse, no name,
\* no selections
ScanCoreMarkets ==
    {Mk(N_MatchOdds, Live, Euros(75000), FloatV(195), NoneV),
     Mk(N_MatchOdds, Pre, Euros(3000), FloatV(195), NoneV),
     Mk(N_MatchOdds, Live, StrV(<<"4", "5", " ", "0", "0", "0", EUR>>), FloatV(195), NoneV),
     Mk(N_OverUnder25, Pre, Euros(3000), FloatV(450), StrV(<<"-", "1", "2", "%">>)),
     Mk(N_FirstHalf, Live, Euros(15000), FloatV(125), NoneV),
     Mk(N_CorrectScore, Live, Euros(75000), FloatV(195), NoneV),
     Market(FALSE, <<>>, <<Sel(K_Type, Live), Sel(K_Summ, Euros(75000)),
                           Sel(K_Odds, FloatV(195))>>, NoneV),
     Market(TRUE, N_MatchOdds, <<>>, NoneV)}

\* A market that signals by its percent, with a volume float() reads as infinity
InfinityMarkets ==
    {Mk(N_BTTS, Live, StrV(<<"i", "n", "f">>), FloatV(175), StrV(<<"-", "1", "2", "%">>))}

\* The market lists given to the analyzer: the empty list, every single
\* market, and every list of core markets
InputLists ==
    {<<m>> : m \in ScoreMarkets \cup SignalMarkets \cup DispatchMarkets \cup DropMarkets
                   \cup TypeMarkets \cup InfinityMarkets \cup DuplicateMarkets}
    \cup SeqsUpTo(CoreMarkets, MaxMarkets)


\* The market lists given to a cycle that runs after another one on the same
\* analyzer: the empty list and the lists of core markets the detectors tell
\* apart
RepeatLists == SeqsUpTo(ScanCoreMarkets, MaxMarkets)

\* The lists a cycle draws its input from, out of the lists of its function
Inputs(was_earlier, lists) == IF was_earlier THEN lists \cap RepeatLists ELSE lists

\* The market lists given to preliminary_analysis
PrelimLists ==
    {<<m>> : m \in SignalMarkets \cup DropMarkets \cup TypeMarkets \cup CoreMarkets}
    \cup SeqsUpTo(ScanCoreMarkets, MaxMarkets)

\* ------------------------------------------------------------ scraper inputs

\* RATE_LIMIT_CONFIG['max_games_per_session']
max_games_per_session == 50

MaxGames == 2

\* Market names that hold an indicator phrase of check_ai_opportunity
N_SinalPositivo ==
    <<"S", "i", "n", "a", "l", " ", "P", "o", "s", "i", "t", "i", "v", "o">>
N_MatchOddsEquilibrado ==
    <<"M", "a", "t", "c", "h", " ", "O", "d", "d", "s", " ", "M", "e", "r", "c", "a", "d",
      "o", " ", "E", "q", "u", "i", "l", "i", "b", "r", "a", "d", "o">>

\* Market names that hold a percentage after the word of the numeric pattern
N_Confianca75 ==
    <<"C", "o", "n", "f", "i", "a", "n", "c,", "a", " ", "7", "5", "%">>
N_Confianca59 ==
    <<"C", "o", "n", "f", "i", "a", "n", "c,", "a", ":", " ", "5", "9", ".", "5", "%">>

\* What process_game_page_tables reads off a game page: a found opportunity
\* of each confidence level, signals without an opportunity, no signal, a
\* volume the deep scorer cannot convert, and names with an indicator phrase
\* or a percentage
FoundMarkets == <<Mk(N_MatchOdds, Live, Euros(75000), FloatV(200), NoneV)>>
SignalledMarkets == <<Mk(N_CorrectScore, Live, Euros(75000), FloatV(200), NoneV)>>
QuietMarkets == <<Mk(N_MatchOdds, Pre, Euros(3000), FloatV(200), NoneV)>>
OverflowMarkets ==
    <<Mk(N_BTTS, Live, StrV(<<"i", "n", "f">>), FloatV(175), StrV(<<"-", "1", "2", "%">>))>>

ProcessedMarketLists ==
    {<<>>, FoundMarkets, SignalledMarkets, QuietMarkets, OverflowMarkets,
     FoundMarkets \o SignalledMarkets,
     <<Mk(N_MatchOdds, Pre, Euros(75000), FloatV(200), NoneV)>>,
     <<Mk(N_FirstHalf, Pre, Euros(30000), FloatV(200), NoneV)>>,
     <<Mk(N_OverUnder25, Live, Euros(45000), FloatV(200), StrV(<<"-", "1", "2", "%">>))>>,
     <<Mk(N_BTTS, Pre, Euros(20000), FloatV(221), StrV(<<"-", "2", "5", "%">>))>>,
     <<Mk(N_SinalPositivo, Live, Euros(75000), FloatV(200), NoneV)>>,
     <<Mk(N_MatchOddsEquilibrado, Live, Euros(75000), FloatV(200), NoneV)>>,
     <<Mk(N_Confianca75, Live, Euros(75000), FloatV(200), NoneV)>>,
     <<Mk(N_Confianca59, Live, Euros(75000), FloatV(200), NoneV)>>}

\* What the site and the Gemini service give for one game: whether page.goto
\* raises, the markets of the page's tables, whether analyze_with_gemini raises
Page(goto, markets, gemini) == [goto |-> goto, markets |-> markets, gemini |-> gemini]

Pages ==
    {Page("raises", <<>>, "ok")}
    \cup {Page("ok", markets, "ok") : markets \in ProcessedMarketLists}
    \cup {Page("ok", FoundMarkets, "raises")}

\* The pages a list of several games is served
CorePages ==
    {Page("raises", <<>>, "ok"), Page("ok", <<>>, "ok"), Page("ok", FoundMarkets, "ok"),
     Page("ok", QuietMarkets, "ok"), Page("ok", OverflowMarkets, "ok")}

\* A key the game dict does not have
Unset == [t |-> "unset", s |-> <<>>, n |-> 0]

BoolV(b) == [t |-> "bool", s |-> <<>>, n |-> IF b THEN 1 ELSE 0]

\* A dict, by its keys
DictKeys(keys) == [t |-> "dict", s |-> keys, n |-> 0]

\* A game as get_excapper_live_games lists it
Game(teams, game_link) ==
    [teams |-> teams, game_link |-> game_link, page_title |-> Unset,
     has_prediction |-> Unset, ai_confidence |-> Unset, opportunity_details |-> Unset,
     gemini_analysis |-> Unset, detailed_report |-> Unset, kairos_analysis |-> Unset,
     processed_markets |-> <<>>, error |-> Unset]

GameLinks == {NoneV, StrV(<<>>), StrV(<<"u">>)}

\* The i-th game of a list, with or without its link
GamesOf(links) == [i \in 1..Len(links) |-> Game(i, links[i])]

\* Lists of up to MaxGames games with every link and page, and lists around
\* the session limit whose games repeat one or two cases
LongLengths == {max_games_per_session - 1, max_games_per_session,
                max_games_per_session + 1}

LongCases ==
    {<<c>> : c \in {<<StrV(<<"u">>), p>> : p \in CorePages} \cup
                   {<<NoneV, Page("ok", <<>>, "ok")>>}}
    \cup {<< <<NoneV, Page("ok", <<>>, "ok")>>,
             <<StrV(<<"u">>), Page("ok", FoundMarkets, "ok")>> >>,
          << <<StrV(<<"u">>), Page("raises", <<>>, "ok")>>,
             <<StrV(<<"u">>), Page("ok", QuietMarkets, "ok")>> >>}

ScraperInputs ==
    {[games |-> GamesOf(<<link>>), pages |-> <<page>>] :
        link \in GameLinks, page \in Pages}
    \cup {[games |-> GamesOf([i \in 1..Len(s) |-> s[i][1]]),
           pages |-> [i \in 1..Len(s) |-> s[i][2]]] :
             s \in SeqsUpTo({<<StrV(<<"u">>), p>> : p \in CorePages}
                            \cup {<<NoneV, Page("ok", <<>>, "ok")>>}, MaxGames)}
    \cup {[games |-> GamesOf([i \in 1..n |-> c[((i - 1) % Len(c)) + 1][1]]),
           pages |-> [i \in 1..n |-> c[((i - 1) % Len(c)) + 1][2]]] :
             n \in LongLengths, c \in LongCases}

\* ------------------------------------------------------------ state machine

VARIABLES
    pc,                     \* Idle, PreliminaryScan, Scanned, Done
    call,                   \* the function the caller invoked
    league,                 \* game_data['league']
    rules,                  \* config['ANALYSIS_RULES_BY_TIER']
    market_data,            \* the market list passed in
    tier,                   \* the tier determine_league_tier returned
    tier_analyzer,          \* config of the PreliminaryAnalyzer(tier_config=...)
    signals,                \* the significant signals of the preliminary scan
    markets_with_signals,   \* the markets handed to the deep scorer
    opportunities,          \* analyze_markets' list of (opportunity, score)
    opportunity,            \* the BettingOpportunity returned
    stages,                 \* the stages this cycle has run, in order
    raised,                 \* the exception that ended the call, or "none"
    summary,                \* the summary_parts analyze_betting_opportunity returned
    confidence_thresholds,  \* KairosAnalyzer.confidence_thresholds
    preliminary_analyzer,   \* config of KairosAnalyzer.preliminary_analyzer
    earlier,                \* a cycle has already run on this analyzer
    live_games_data,        \* the games passed to process_multiple_games_safely
    pages,                  \* what the site gives for each of them
    game_index,             \* the iterations of its loop that have run
    processed_games,        \* the list it returns
    driver_pc,              \* Idle, Loop, Returned
    sender,                 \* the class whose send_message runs
    attempt,                \* the attempts of send_message that have run
    sent,                   \* what each send of this call came to
    slept,                  \* the waits of this call, in seconds
    returned,               \* what send_message returned or raised, or "none"
    sender_pc               \* Idle, Sending, Returned

analyzer_vars ==
    <<pc, call, league, rules, market_data, tier, tier_analyzer, signals,
      markets_with_signals, opportunities, opportunity, stages, raised, summary,
      confidence_thresholds, preliminary_analyzer, earlier>>

scraper_vars == <<live_games_data, pages, game_index, processed_games, driver_pc>>

sender_vars == <<sender, attempt, sent, slept, returned, sender_pc>>

vars == <<analyzer_vars, scraper_vars, sender_vars>>

NoResult == NotFound("")

\* No call of the scraper's driver loop is under way
ScraperIdle ==
    /\ live_games_data = <<>>
    /\ pages = <<>>
    /\ game_index = 0
    /\ processed_games = <<>>
    /\ driver_pc = "Idle"

\* No message is being sent
SenderIdle ==
    /\ sender = "none"
    /\ attempt = 0
    /\ sent = <<>>
    /\ slept = <<>>
    /\ returned = "none"
    /\ sender_pc = "Idle"

\* KairosAnalyzer(): the analyzer is constructed, no call is in progress
AnalyzerIdle ==
    /\ pc = "Idle"
    /\ call = "none"
    /\ league = NoneV
    /\ rules = NoRules
    /\ market_data = <<>>
    /\ tier = "none"
    /\ tier_analyzer = PreliminaryAnalyzer(NoTierConfig)
    /\ signals = <<>>
    /\ markets_with_signals = <<>>
    /\ opportunities = <<>>
    /\ opportunity = NoResult
    /\ stages = <<>>
    /\ raised = "none"
    /\ summary = <<>>
    /\ confidence_thresholds = ConfidenceThresholds
    /\ preliminary_analyzer = PreliminaryAnalyzer(NoTierConfig)
    /\ earlier = FALSE

Init == AnalyzerIdle /\ ScraperIdle /\ SenderIdle

\* determine_league_tier(league_name)
Classify ==
    /\ pc = "Idle"
    /\ \E l \in Leagues :
        /\ league' = l
        /\ tier' = determine_league_tier(l)
    /\ call' = "determine_league_tier"
    /\ pc' = "Done"
    /\ UNCHANGED <<rules, market_data, tier_analyzer, signals, markets_with_signals,
                   opportunities, opportunity, stages, raised, summary,
                   confidence_thresholds, preliminary_analyzer,
                   earlier>>
    /\ UNCHANGED <<scraper_vars, sender_vars>>

\* preliminary_analysis(game_data, market_data, config); the returned dicts
\* copy the fields of the signals and add tier and league
PreliminaryAnalysis ==
    /\ pc = "Idle"
    /\ \E l \in SampleLeagues, r \in RuleConfigs, md \in Inputs(earlier, PrelimLists) :
        \E t \in {determine_league_tier(l)} :
        \E analyzer \in {PreliminaryAnalyzer(r[t])} :
            /\ league' = l
            /\ rules' = r
            /\ market_data' = md
            /\ tier' = t
            /\ tier_analyzer' = analyzer
            /\ signals' = analyze_markets_preliminary(analyzer, md)
    /\ call' = "preliminary_analysis"
    /\ stages' = <<"PreliminaryScan">>
    /\ pc' = "Done"
    /\ UNCHANGED <<markets_with_signals, opportunities, opportunity, raised,
                   summary, confidence_thresholds, preliminary_analyzer,
                   earlier>>
    /\ UNCHANGED <<scraper_vars, sender_vars>>

\* analyze_betting_opportunity(market_data) enters analyze_markets_two_tier
TwoTierCall ==
    /\ pc = "Idle"
    /\ \E md \in Inputs(earlier, InputLists) : market_data' = md
    /\ call' = "analyze_markets_two_tier"
    /\ pc' = "PreliminaryScan"
    /\ UNCHANGED <<league, rules, tier, tier_analyzer, signals, markets_with_signals,
                   opportunities, opportunity, stages, raised, summary,
                   confidence_thresholds, preliminary_analyzer,
                   earlier>>
    /\ UNCHANGED <<scraper_vars, sender_vars>>

\* A level 1 that adapts the detector to what it found: after a scan with
\* signals the detector keeps the thresholds of a tier1 league
PreliminaryScan_adaptive ==
    /\ pc = "PreliminaryScan"
    /\ \E found \in {analyze_markets_preliminary(preliminary_analyzer, market_data)} :
        /\ signals' = found
        /\ preliminary_analyzer' = IF found = <<>> THEN preliminary_analyzer
                                   ELSE PreliminaryAnalyzer(TierConfig(10000, -1000))
    /\ stages' = Append(stages, "PreliminaryScan")
    /\ pc' = "Scanned"
    /\ UNCHANGED <<call, league, rules, market_data, tier, tier_analyzer,
                   markets_with_signals, opportunities, opportunity, raised,
                   summary, confidence_thresholds, earlier>>
    /\ UNCHANGED <<scraper_vars, sender_vars>>

\* analyze_markets_two_tier, level 1: the preliminary scan of every market
PreliminaryScan ==
    /\ pc = "PreliminaryScan"
    /\ signals' = analyze_markets_preliminary(preliminary_analyzer, market_data)
    /\ stages' = Append(stages, "PreliminaryScan")
    /\ pc' = "Scanned"
    /\ UNCHANGED <<call, league, rules, market_data, tier, tier_analyzer,
                   markets_with_signals, opportunities, opportunity, raised,
                   summary, confidence_thresholds, preliminary_analyzer,
                   earlier>>
    /\ UNCHANGED <<scraper_vars, sender_vars>>

\* analyze_markets_two_tier: no signal, return [] and the found=False opportunity,
\* which analyze_betting_opportunity hands to get_analysis_summary
NoSignals ==
    /\ pc = "Scanned"
    /\ NoSignalsFound(signals)
    /\ signals' = <<>>
    /\ \E result \in {NotFound("Analise preliminar nao detectou sinais significativos")} :
        /\ opportunity' = result
        /\ summary' = get_analysis_summary(<<>>, result)
    /\ pc' = "Done"
    /\ UNCHANGED <<call, league, rules, market_data, tier, tier_analyzer,
                   markets_with_signals, opportunities, stages, raised,
                   confidence_thresholds, preliminary_analyzer,
                   earlier>>
    /\ UNCHANGED <<scraper_vars, sender_vars>>

\* analyze_markets_two_tier, level 2: the deep scorer on the markets with
\* signals, and get_analysis_summary on what it returned; an exception of a
\* rule ends the call without a result
DeepScore ==
    /\ pc = "Scanned"
    /\ ~NoSignalsFound(signals)
    /\ \E filtered \in {filter_markets_with_signals(market_data, signals)} :
       \E exc \in {FirstException(confidence_thresholds, filtered)} :
           /\ markets_with_signals' = filtered
           /\ raised' = exc
           /\ opportunities' = IF exc = "none"
                               THEN Opportunities(confidence_thresholds, filtered)
                               ELSE <<>>
           /\ \E result \in {IF exc = "none"
                            THEN analyze_markets(confidence_thresholds, filtered)
                            ELSE NoResult} :
               /\ opportunity' = result
               /\ summary' = IF exc = "none"
                             THEN get_analysis_summary(signals, result)
                             ELSE <<>>
    /\ stages' = Append(stages, "DeepScore")
    /\ pc' = "Done"
    /\ UNCHANGED <<call, league, rules, market_data, tier, tier_analyzer, signals,
                   confidence_thresholds, preliminary_analyzer,
                   earlier>>
    /\ UNCHANGED <<scraper_vars, sender_vars>>

\* analyze_betting_opportunity_legacy(market_data): analyze_markets alone
AnalyzeMarkets ==
    /\ pc = "Idle"
    /\ \E md \in Inputs(earlier, InputLists) :
       \E exc \in {FirstException(confidence_thresholds, md)} :
        /\ market_data' = md
        /\ raised' = exc
        /\ opportunities' = IF exc = "none"
                            THEN Opportunities(confidence_thresholds, md)
                            ELSE <<>>
        /\ opportunity' = IF exc = "none"
                          THEN analyze_markets(confidence_thresholds, md)
                          ELSE NoResult
    /\ call' = "analyze_markets"
    /\ stages' = <<"DeepScore">>
    /\ pc' = "Done"
    /\ UNCHANGED <<league, rules, tier, tier_analyzer, signals, markets_with_signals,
                   summary, confidence_thresholds, preliminary_analyzer,
                   earlier>>
    /\ UNCHANGED <<scraper_vars, sender_vars>>

\* The call has returned; the next one starts from a fresh analyzer
Return ==
    /\ pc = "Done"
    /\ pc' = "Idle"
    /\ call' = "none"
    /\ league' = NoneV
    /\ rules' = NoRules
    /\ market_data' = <<>>
    /\ tier' = "none"
    /\ tier_analyzer' = PreliminaryAnalyzer(NoTierConfig)
    /\ signals' = <<>>
    /\ markets_with_signals' = <<>>
    /\ opportunities' = <<>>
    /\ opportunity' = NoResult
    /\ stages' = <<>>
    /\ raised' = "none"
    /\ summary' = <<>>
    /\ earlier' = TRUE
    /\ UNCHANGED <<confidence_thresholds, preliminary_analyzer>>

    /\ UNCHANGED <<scraper_vars, sender_vars>>
Next ==
    \/ Classify
    \/ PreliminaryAnalysis
    \/ TwoTierCall
    \/ PreliminaryScan
    \/ NoSignals
    \/ DeepScore
    \/ AnalyzeMarkets
    \/ Return

Spec == Init /\ [][Next]_vars

\* ------------------------------------------------------- scraper driver loop

\* max_games = min(len(live_games_data), max_games_per_session)
max_games ==
    IF Len(live_games_data) < max_games_per_session
    THEN Len(live_games_data) ELSE max_games_per_session

\* The game of this iteration and what the site gives for it
ThisGame == live_games_data[game_index + 1]
ThisPage == pages[game_index + 1]

InLoop == driver_pc = "Loop" /\ game_index < max_games

\* "processed_games.append(game)" and the next iteration
Processed(game) ==
    /\ processed_games' = Append(processed_games, game)
    /\ game_index' = game_index + 1
    /\ UNCHANGED <<live_games_data, pages, driver_pc>>

\* The call of process_multiple_games_safely on a list of games
DriverInit ==
    /\ AnalyzerIdle
    /\ SenderIdle
    /\ \E input \in ScraperInputs :
        /\ live_games_data = input.games
        /\ pages = input.pages
    /\ game_index = 0
    /\ processed_games = <<>>
    /\ driver_pc = "Loop"

\* A handler that gives up the game list at a game that fails
GameFails_stops ==
    /\ InLoop
    /\ Truthy(ThisGame.game_link)
    /\ \/ ThisPage.goto = "raises"
       \/ /\ ThisPage.markets # <<>>
          /\ analyze_betting_opportunity(ThisPage.markets).raised # "none"
    /\ driver_pc' = "Returned"
    /\ UNCHANGED <<live_games_data, pages, game_index, processed_games>>
    /\ UNCHANGED <<analyzer_vars, sender_vars>>

\* "if not game_link": the game is kept without a prediction
SkipGame ==
    /\ InLoop
    /\ ~Truthy(ThisGame.game_link)
    /\ Processed([ThisGame EXCEPT !.has_prediction = BoolV(FALSE),
                                  !.ai_confidence = IntV(0)])
    /\ UNCHANGED <<analyzer_vars, sender_vars>>

\* "except Exception as e": page.goto raised, or the analysis of the
\* markets did (the page details are in the game by then)
GameFails ==
    /\ InLoop
    /\ Truthy(ThisGame.game_link)
    /\ \/ /\ ThisPage.goto = "raises"
          /\ Processed([ThisGame EXCEPT !.has_prediction = BoolV(FALSE),
                                        !.ai_confidence = IntV(0),
                                        !.error = StrV(<<"TimeoutError">>)])
       \/ /\ ThisPage.goto = "ok"
          /\ ThisPage.markets # <<>>
          /\ \E analysis \in {analyze_betting_opportunity(ThisPage.markets)} :
              /\ analysis.raised # "none"
              /\ Processed([ThisGame EXCEPT !.page_title = StrV(<<"title">>),
                                            !.has_prediction = BoolV(FALSE),
                                            !.ai_confidence = IntV(0),
                                            !.error = StrV(<<analysis.raised>>)])
    /\ UNCHANGED <<analyzer_vars, sender_vars>>

\* "else": process_game_page_tables gave no market
NoMarkets ==
    /\ InLoop
    /\ Truthy(ThisGame.game_link)
    /\ ThisPage.goto = "ok"
    /\ ThisPage.markets = <<>>
    /\ Processed([ThisGame EXCEPT !.page_title = StrV(<<"title">>),
                                  !.has_prediction = BoolV(FALSE),
                                  !.ai_confidence = IntV(0),
                                  !.kairos_analysis = NoneV,
                                  !.gemini_analysis = NoneV])
    /\ UNCHANGED <<analyzer_vars, sender_vars>>

\* "if processed_markets": the KAIROS analysis, the flag and the confidence
\* read off its text, the Gemini analysis, and the report of an opportunity
ProcessGame ==
    /\ InLoop
    /\ Truthy(ThisGame.game_link)
    /\ ThisPage.goto = "ok"
    /\ ThisPage.markets # <<>>
    /\ \E analysis \in {analyze_betting_opportunity(ThisPage.markets)} :
        /\ analysis.raised = "none"
        /\ \E checked \in {check_ai_opportunity(analysis.text)} :
            Processed([ThisGame EXCEPT
                !.page_title = StrV(<<"title">>),
                !.has_prediction = BoolV(checked.has_opportunity),
                !.ai_confidence = extract_confidence_from_analysis(analysis.text),
                !.opportunity_details = DictKeys(checked.opportunity_details),
                !.gemini_analysis = IF ThisPage.gemini = "ok"
                                    THEN StrV(<<"gemini">>) ELSE NoneV,
                !.detailed_report = IF checked.has_opportunity
                                    THEN StrV(<<"report">>) ELSE Unset,
                !.kairos_analysis = StrV(analysis.text),
                !.processed_markets = ThisPage.markets])
    /\ UNCHANGED <<analyzer_vars, sender_vars>>

\* "return processed_games"
ReturnGames ==
    /\ driver_pc = "Loop"
    /\ game_index = max_games
    /\ driver_pc' = "Returned"
    /\ UNCHANGED <<live_games_data, pages, game_index, processed_games>>
    /\ UNCHANGED <<analyzer_vars, sender_vars>>

DriverNext ==
    \/ SkipGame
    \/ GameFails
    \/ NoMarkets
    \/ ProcessGame
    \/ ReturnGames

DriverSpec == DriverInit /\ [][DriverNext]_vars

\* ------------------------------------------------------ Telegram send_message

\* TelegramSender.__init__: self.max_retries, self.retry_delay
max_retries == 3
retry_delay == 2

\* TelegramNotifier.send_message: the default of retry_count
retry_count == 3

\* The seconds a RetryAfter error asks to wait
RetryAfterValues == {0, 1, 30}

\* The classes with a send_message, and the chat ids a TelegramNotifier call
\* resolves 'chat_id or self.default_chat_id' to
SenderClasses == {"TelegramSender", "TelegramNotifier"}
ChatIds == {NoneV, StrV(<<"-", "1", "0", "0">>)}

\* 2 ** attempt
RECURSIVE Pow2(_)
Pow2(k) == IF k = 0 THEN 1 ELSE 2 * Pow2(k - 1)

\* send_message is running its loop
Sending(cls) == sender_pc = "Sending" /\ sender = cls

\* One iteration of 'for attempt in range(limit)' has run with this outcome
\* and these waits: the loop goes on, or it is exhausted and the call ends
\* with what follows the loop
NextAttempt(limit, outcome, waits, after) ==
    /\ attempt < limit
    /\ sent' = Append(sent, outcome)
    /\ slept' = slept \o waits
    /\ attempt' = attempt + 1
    /\ IF attempt + 1 < limit
       THEN /\ returned' = "none"
            /\ sender_pc' = "Sending"
       ELSE /\ returned' = after
            /\ sender_pc' = "Returned"
    /\ UNCHANGED sender

\* One iteration has run with this outcome and left the method
LastAttempt(limit, outcome, result) ==
    /\ attempt < limit
    /\ sent' = Append(sent, outcome)
    /\ attempt' = attempt + 1
    /\ returned' = result
    /\ sender_pc' = "Returned"
    /\ UNCHANGED <<sender, slept>>

\* A call of send_message: TelegramNotifier raises ValueError without a chat
\* id, before any attempt
SendMessage ==
    /\ sender_pc = "Idle"
    /\ \E cls \in SenderClasses, target_chat_id \in ChatIds :
        /\ cls = "TelegramSender" => target_chat_id # NoneV
        /\ sender' = cls
        /\ IF cls = "TelegramNotifier" /\ ~Truthy(target_chat_id)
           THEN /\ returned' = "ValueError"
                /\ sender_pc' = "Returned"
           ELSE /\ returned' = "none"
                /\ sender_pc' = "Sending"
    /\ UNCHANGED <<attempt, sent, slept>>
    /\ UNCHANGED <<analyzer_vars, scraper_vars>>

\* TelegramSender: bot.send_message returns; 'return True'
SendSucceeds ==
    /\ Sending("TelegramSender")
    /\ LastAttempt(max_retries, "success", "True")
    /\ UNCHANGED <<analyzer_vars, scraper_vars>>

\* TelegramSender: 'except RetryAfter': sleep e.retry_after, next attempt
RateLimited ==
    /\ Sending("TelegramSender")
    /\ \E retry_after \in RetryAfterValues :
        NextAttempt(max_retries, "RetryAfter", <<retry_after>>, "False")
    /\ UNCHANGED <<analyzer_vars, scraper_vars>>

\* A non-network TelegramError that is taken for one more failed attempt
TelegramFails_retries ==
    /\ Sending("TelegramSender")
    /\ NextAttempt(max_retries, "TelegramError", <<>>, "False")
    /\ UNCHANGED <<analyzer_vars, scraper_vars>>

\* TelegramSender: 'except NetworkError': sleep retry_delay unless this was
\* the last attempt, next attempt
NetworkFails ==
    /\ Sending("TelegramSender")
    /\ NextAttempt(max_retries, "NetworkError",
                   IF attempt < max_retries - 1 THEN <<retry_delay>> ELSE <<>>, "False")
    /\ UNCHANGED <<analyzer_vars, scraper_vars>>

\* TelegramSender: 'except TelegramError': 'return False'
TelegramFails ==
    /\ Sending("TelegramSender")
    /\ LastAttempt(max_retries, "TelegramError", "False")
    /\ UNCHANGED <<analyzer_vars, scraper_vars>>

\* TelegramSender: 'except Exception': 'return False'
UnexpectedFails ==
    /\ Sending("TelegramSender")
    /\ LastAttempt(max_retries, "Exception", "False")
    /\ UNCHANGED <<analyzer_vars, scraper_vars>>

\* TelegramNotifier: status 200 and result.get("ok"); 'return result'
PostSucceeds ==
    /\ Sending("TelegramNotifier")
    /\ LastAttempt(retry_count, "success", "result")
    /\ UNCHANGED <<analyzer_vars, scraper_vars>>

\* TelegramNotifier: the API rejects the message, or the post raises: sleep
\* 2 ** attempt and go on, or on the last attempt raise the error
PostFails ==
    /\ Sending("TelegramNotifier")
    /\ \E outcome \in {"rejected", "ClientError"} :
        IF attempt = retry_count - 1
        THEN LastAttempt(retry_count, outcome,
                         IF outcome = "rejected" THEN "Exception" ELSE outcome)
        ELSE NextAttempt(retry_count, outcome, <<Pow2(attempt)>>, "Exception")
    /\ UNCHANGED <<analyzer_vars, scraper_vars>>

\* The caller has the result; the next call starts afresh
MessageDone ==
    /\ sender_pc = "Returned"
    /\ sender' = "none"
    /\ attempt' = 0
    /\ sent' = <<>>
    /\ slept' = <<>>
    /\ returned' = "none"
    /\ sender_pc' = "Idle"
    /\ UNCHANGED <<analyzer_vars, scraper_vars>>

SenderNext ==
    \/ SendMessage
    \/ SendSucceeds
    \/ RateLimited
    \/ NetworkFails
    \/ TelegramFails
    \/ UnexpectedFails
    \/ PostSucceeds
    \/ PostFails
    \/ MessageDone

SenderSpec == Init /\ [][SenderNext]_vars

\* ----------------------------------------------------------------- properties

TwoTier == "analyze_markets_two_tier"

\* A preliminary scan has returned: preliminary_analysis is done, or the
\* pipeline is past its level 1
ScanDone ==
    \/ call = "preliminary_analysis" /\ pc = "Done"
    \/ call = TwoTier /\ pc \in {"Scanned", "Done"}

\* The detector configuration that scan used
ScanAnalyzer ==
    IF call = "preliminary_analysis" THEN tier_analyzer ELSE preliminary_analyzer

\* The deep scorer has returned, and the list it was given
ScoreDone ==
    /\ pc = "Done"
    /\ raised = "none"
    /\ call \in {"analyze_markets", TwoTier}
    /\ stages # <<>>
    /\ stages[Len(stages)] = "DeepScore"

ScorerInput == IF call = TwoTier THEN markets_with_signals ELSE market_data

\* The volume the detector parses out of a market
SignalVolume(market) ==
    Prelim_parse_volume(extract_market_data(market.selections).volume)

\* The Money-Way strengths the rule "1.0 if v >= 6m, 0.8 if v >= 3m, 0.6 if
\* v >= m, none otherwise" gives for the markets of a list, in order
\* (a volume of 0 counts as absent: it matters under a minimum volume of 0)
RECURSIVE C1_Strengths(_, _)
C1_Strengths(m, markets) ==
    IF markets = <<>> THEN <<>>
    ELSE With(SignalVolume(Head(markets)), LAMBDA v :
              (IF ~Truthy(v) \/ v.n < m THEN <<>>
               ELSE IF v.n >= 6 * m THEN <<F1_0>>
               ELSE IF v.n >= 3 * m THEN <<F0_8>>
               ELSE <<F0_6>>)
              \o C1_Strengths(m, Tail(markets)))

MoneyWaySignals == SelectSeq(signals, LAMBDA s : s.signal_type = "money_way")

\* C1: after every preliminary scan, under the tier configuration with minimum
\* volume m, the money_way signals are, market by market, of strength 1.0 if
\* the parsed volume v >= 6m, else 0.8 if v >= 3m, else 0.6 if v >= m, and
\* there is none for a market with v < m or no parsable volume.
C1_MoneyWayStrength ==
    ScanDone =>
        [i \in 1..Len(MoneyWaySignals) |-> MoneyWaySignals[i].strength]
            = C1_Strengths(ScanAnalyzer.money_way.min_volume, market_data)

\* A tier1 league with min_volume 10000, and a market at exactly 6 * 10000
C1_Witness ==
    /\ call = "preliminary_analysis" /\ pc = "Done"
    /\ tier = "tier1"
    /\ tier_analyzer.money_way.min_volume = 10000
    /\ Len(market_data) = 1
    /\ SignalVolume(market_data[1]) = IntV(60000)
    /\ Len(MoneyWaySignals) = 1
    /\ MoneyWaySignals[1].strength = F1_0

\* Whether s contains p, compared letter by letter without case
C2_Has(s, p) ==
    \E k \in 0..(Len(s) - Len(p)) :
        \A j \in 1..Len(p) : LowerChar(s[k + j]) = LowerChar(p[j])

C2_HasAny(s, patterns) == \E i \in 1..Len(patterns) : C2_Has(s, patterns[i])

\* C2: a league name containing a tier1 pattern (without case) is tier1 even
\* if it contains tier2 patterns; one with no tier1 but a tier2 pattern is
\* tier2; a name matching neither, the empty name and None are tier3.
C2_TierClassification ==
    (call = "determine_league_tier" /\ pc = "Done") =>
        tier = IF league = NoneV \/ league = StrV(<<>>) THEN "tier3"
               ELSE IF C2_HasAny(league.s, LEAGUE_TIERS.tier1) THEN "tier1"
               ELSE IF C2_HasAny(league.s, LEAGUE_TIERS.tier2) THEN "tier2"
               ELSE "tier3"

\* A name with a tier1 pattern and a tier2 pattern, classified tier1
C2_Witness ==
    /\ call = "determine_league_tier" /\ pc = "Done"
    /\ league.t = "str"
    /\ C2_HasAny(league.s, LEAGUE_TIERS.tier1)
    /\ C2_HasAny(league.s, LEAGUE_TIERS.tier2)
    /\ tier = "tier1"

\* C3: when the deep scorer has candidates, the opportunity returned is the
\* candidate of greatest confidence_score, and among several of that score
\* the first in input order.
C3_BestOpportunity ==
    (ScoreDone /\ opportunities # <<>>) =>
        \E i \in 1..Len(opportunities) :
            /\ opportunity = opportunities[i].opp
            /\ \A j \in 1..Len(opportunities) :
                   FGe(opportunities[i].score, opportunities[j].score)
            /\ \A j \in 1..(i - 1) :
                   ~FGe(opportunities[j].score, opportunities[i].score)

\* Two different candidates share the greatest score; the first is returned
C3_Witness ==
    /\ ScoreDone
    /\ Len(opportunities) = 2
    /\ opportunities[1].score = opportunities[2].score
    /\ opportunities[1].opp # opportunities[2].opp
    /\ opportunity = opportunities[1].opp

NoSignalsText == "Analise preliminar nao detectou sinais significativos"

\* C4: in every cycle of the pipeline the preliminary scan is the first
\* stage; the deep scorer runs if and only if the scan returned a signal, and
\* then after it; with no signal the cycle ends with an empty signal list and
\* the found=false opportunity.
C4_PipelineOrder ==
    call = TwoTier =>
        /\ pc = "PreliminaryScan" => stages = <<>>
        /\ pc = "Scanned" => stages = <<"PreliminaryScan">>
        /\ pc = "Done" =>
            \/ /\ signals # <<>>
               /\ stages = <<"PreliminaryScan", "DeepScore">>
            \/ /\ signals = <<>>
               /\ stages = <<"PreliminaryScan">>
               /\ opportunity = NotFound(NoSignalsText)
               /\ ~opportunity.found

\* A cycle that ran both stages
C4_Witness ==
    /\ call = TwoTier /\ pc = "Done"
    /\ signals # <<>>
    /\ stages = <<"PreliminaryScan", "DeepScore">>

\* Whether the scan of this market alone returns a signal
C5_Signalled(market) ==
    analyze_markets_preliminary(preliminary_analyzer, <<market>>) # <<>>

\* C5: the markets given to the deep scorer are exactly the markets of the
\* input list that themselves emitted a signal of strength >= 0.6.
C5_FilterBySignal ==
    (call = TwoTier /\ ScoreDone) =>
        markets_with_signals = SelectSeq(market_data, C5_Signalled)

\* C6: the detector configuration whose signals gate the deep scorer has the
\* min_volume and min_drop_percent that preliminary_analysis selects for the
\* league's tier.
C6_TierThresholdsInPipeline ==
    (call = "preliminary_analysis" /\ pc = "Done") =>
        /\ preliminary_analyzer.money_way.min_volume
               = tier_analyzer.money_way.min_volume
        /\ preliminary_analyzer.drop_odds.min_drop_percent
               = tier_analyzer.drop_odds.min_drop_percent

\* The deep scorer has returned from a list of one market
ScoredOne == ScoreDone /\ Len(ScorerInput) = 1

\* What the rules read of that market: its name, type, parsed volume, odds
ScoredName == NameOrEmpty(ScorerInput[1])
ScoredData == extract_market_data(ScorerInput[1].selections)
ScoredType == ScoredData.type
ScoredVolume == Kairos_parse_volume(ScoredData.volume)
ScoredOdds == ScoredData.odds

\* "present non-zero volume v and odds o"
ScoredPresent ==
    /\ ScoredVolume # NoneV /\ ScoredVolume.n # 0
    /\ ScoredOdds # NoneV /\ ScoredOdds.n # 0

\* The rule the dispatch of _analyze_single_market gives the market to
IsMatchOdds == Contains(ScoredName, S_MatchOdds)
IsOverUnder == ~IsMatchOdds /\ Contains(ScoredName, S_OverUnder)
IsBTTS == ~IsMatchOdds /\ ~IsOverUnder /\ Contains(ScoredName, S_BTTS)
IsHalf == ~IsMatchOdds /\ ~IsOverUnder /\ ~IsBTTS /\ Contains(ScoredName, S_Half)

\* A score as the sum of its terms in the order the rule adds them, in
\* doubles; and in exact hundredths
RECURSIVE FSum(_)
FSum(terms) ==
    IF terms = <<>> THEN F0_0
    ELSE FAdd(FSum(SubSeq(terms, 1, Len(terms) - 1)), terms[Len(terms)])

RECURSIVE Sum(_)
Sum(terms) == IF terms = <<>> THEN 0 ELSE Head(terms) + Sum(Tail(terms))

\* The candidate is produced iff the score in hundredths reaches the floor,
\* and it carries the score in doubles and is the opportunity returned
CandidateIff(points, floor, score) ==
    /\ opportunities # <<>> <=> points >= floor
    /\ opportunities # <<>> =>
           /\ opportunities[1].score = score
           /\ opportunity = opportunities[1].opp
           /\ opportunity.found

C7_Terms(zero, w2, w3) ==
    <<IF ScoredVolume.n > 50000 THEN w3 ELSE IF ScoredVolume.n > 20000 THEN w2 ELSE zero,
      IF 150 <= ScoredOdds.n /\ ScoredOdds.n <= 250 THEN w3 ELSE zero,
      IF ScoredType = Live THEN w2 ELSE zero>>

\* C7: for a Match Odds market with present non-zero volume v and odds o the
\* score is (0.3 if v > 50000, else 0.2 if v > 20000) + (0.3 if 1.5 <= o <=
\* 2.5) + (0.2 if live), and there is a candidate iff the score is >= 0.6;
\* volume 75000, odds 1.95, live give score 0.8 and confidence Alto.
C7_MatchOddsRule ==
    (ScoredOne /\ IsMatchOdds /\ ScoredPresent) =>
        /\ CandidateIff(Sum(C7_Terms(0, 20, 30)), 60, FSum(C7_Terms(F0_0, F0_2, F0_3)))
        /\ (ScoredVolume.n = 75000 /\ ScoredOdds.n = 195 /\ ScoredType = Live) =>
               /\ opportunities # <<>>
               /\ opportunities[1].score = F0_8
               /\ opportunity.confidence_level = "Alto"

\* The Match Odds market of volume 75000, odds 1.95, live, with its candidate
C7_Witness ==
    /\ ScoredOne /\ IsMatchOdds /\ ScoredPresent
    /\ ScoredVolume.n = 75000 /\ ScoredOdds.n = 195 /\ ScoredType = Live
    /\ opportunities # <<>>
    /\ opportunities[1].score = F0_8

\* The first decimal number of the market names in use, <<>> for none
C8_Line ==
    IF ScoredName \in {N_OverUnder25, N_OverUnderBTTS, N_MatchOddsOverUnder}
    THEN <<"2", ".", "5">>
    ELSE IF ScoredName \in {N_OverUnder15, N_HalfOverUnder} THEN <<"1", ".", "5">>
    ELSE IF ScoredName = N_OverUnder35 THEN <<"3", ".", "5">>
    ELSE <<>>

C8_Terms(zero, w15, w20, w25, w35) ==
    <<IF ScoredVolume.n > 30000 THEN w25 ELSE zero,
      IF 180 <= ScoredOdds.n /\ ScoredOdds.n <= 220 THEN w35 ELSE zero,
      IF C8_Line \in {<<"2", ".", "5">>, <<"1", ".", "5">>} THEN w20 ELSE zero,
      IF ScoredType = Live THEN w15 ELSE zero>>

\* C8: for an Over/Under market with present non-zero volume v and odds o the
\* score is (0.25 if v > 30000) + (0.35 if 1.8 <= o <= 2.2) + (0.2 if the
\* first decimal number of the name is 2.5 or 1.5) + (0.15 if live); there is
\* a candidate iff the score is >= 0.6, with selection "Over <line>", or
\* "Over" for a name without decimal number; "Over/Under 2.5 Goals", live,
\* 45000, 1.95 give "Over 2.5", the score 0.25 + 0.35 + 0.2 + 0.15, and Alto.
C8_OverUnderRule ==
    (ScoredOne /\ IsOverUnder /\ ScoredPresent) =>
        /\ ScoredName \in {N_OverUnder25, N_OverUnder15, N_OverUnder35, N_OverUnderGoals,
                          N_HalfOverUnder, N_OverUnderBTTS}
        /\ CandidateIff(Sum(C8_Terms(0, 15, 20, 25, 35)), 60,
                        FSum(C8_Terms(F0_0, F0_15, F0_2, F0_25, F0_35)))
        /\ opportunities # <<>> =>
               opportunity.selection =
                   IF C8_Line = <<>> THEN <<"O", "v", "e", "r">>
                   ELSE <<"O", "v", "e", "r", " ">> \o C8_Line
        /\ (ScoredName = N_OverUnder25 /\ ScoredVolume.n = 45000
            /\ ScoredOdds.n = 195 /\ ScoredType = Live) =>
               /\ opportunities # <<>>
               /\ Sum(C8_Terms(0, 15, 20, 25, 35)) = 95
               /\ opportunity.selection = <<"O", "v", "e", "r", " ", "2", ".", "5">>
               /\ opportunity.confidence_level = "Alto"

\* "Over/Under 2.5 Goals", live, 45000, 1.95, with its candidate "Over 2.5"
C8_Witness ==
    /\ ScoredOne /\ IsOverUnder /\ ScoredPresent
    /\ ScoredName = N_OverUnder25 /\ ScoredVolume.n = 45000
    /\ ScoredOdds.n = 195 /\ ScoredType = Live
    /\ opportunities # <<>>
    /\ opportunity.selection = <<"O", "v", "e", "r", " ", "2", ".", "5">>

C9_Terms(zero, w3, w4) ==
    <<IF ScoredVolume.n > 15000 THEN w3 ELSE zero,
      IF 160 <= ScoredOdds.n /\ ScoredOdds.n <= 240 THEN w4 ELSE zero>>

\* C9: for a BTTS market with present non-zero volume v and odds o the score
\* is (0.3 if v > 15000) + (0.4 if 1.6 <= o <= 2.4); there is a candidate iff
\* the score is >= 0.5, and its selection is "Yes" when o < 2.0, else "No".
C9_BTTSRule ==
    (ScoredOne /\ IsBTTS /\ ScoredPresent) =>
        /\ CandidateIff(Sum(C9_Terms(0, 30, 40)), 50, FSum(C9_Terms(F0_0, F0_3, F0_4)))
        /\ opportunities # <<>> =>
               opportunity.selection =
                   IF ScoredOdds.n < 200 THEN <<"Y", "e", "s">> ELSE <<"N", "o">>

\* A BTTS candidate at odds exactly 2.0, selected "No"
C9_Witness ==
    /\ ScoredOne /\ IsBTTS /\ ScoredPresent
    /\ ScoredOdds.n = 200
    /\ opportunities # <<>>
    /\ opportunity.selection = <<"N", "o">>

C10_Terms(zero, w25, w3) ==
    <<IF ScoredVolume.n > 20000 THEN w25 ELSE zero,
      IF 150 <= ScoredOdds.n /\ ScoredOdds.n <= 300 THEN w3 ELSE zero>>

\* C10: a half market with volume < 10000 (or none) gives no candidate; with
\* volume >= 10000 and odds o present the score is (0.25 if volume > 20000) +
\* (0.3 if 1.5 <= o <= 3.0), and there is a candidate iff the score is >= 0.4.
C10_HalfRule ==
    (ScoredOne /\ IsHalf) =>
        /\ (ScoredVolume = NoneV \/ ScoredVolume.n < 10000) => opportunities = <<>>
        /\ (ScoredVolume # NoneV /\ ScoredVolume.n >= 10000 /\ ScoredOdds # NoneV) =>
               CandidateIff(Sum(C10_Terms(0, 25, 30)), 40,
                            FSum(C10_Terms(F0_0, F0_25, F0_3)))

\* A half market of volume 20001 and odds 3.0: score 0.25 + 0.3, a candidate
C10_Witness ==
    /\ ScoredOne /\ IsHalf
    /\ ScoredVolume.n = 20001
    /\ ScoredOdds.n = 300
    /\ opportunities # <<>>
    /\ opportunity.found

\* Whether s contains p, letter by letter
C11_Has(s, p) ==
    \E k \in 0..(Len(s) - Len(p)) : \A j \in 1..Len(p) : s[k + j] = p[j]

\* The rule of the priority order 'Match Odds', 'Over/Under', 'Both teams to
\* Score', 'Half' for the scored market's name
C11_Rule ==
    IF C11_Has(ScoredName, S_MatchOdds) THEN "Match Odds"
    ELSE IF C11_Has(ScoredName, S_OverUnder) THEN "Over/Under"
    ELSE IF C11_Has(ScoredName, S_BTTS) THEN "BTTS"
    ELSE IF C11_Has(ScoredName, S_Half) THEN "Half Time"
    ELSE "none"

\* What that rule alone returns for the scored market
C11_RuleResult ==
    LET url == ScorerInput[1].betfair_url
    IN  CASE C11_Rule = "Match Odds" ->
                 analyze_match_odds(confidence_thresholds, ScoredName, ScoredData, url)
          [] C11_Rule = "Over/Under" ->
                 analyze_over_under(confidence_thresholds, ScoredName, ScoredData, url)
          [] C11_Rule = "BTTS" ->
                 analyze_btts(confidence_thresholds, ScoredName, ScoredData, url)
          [] C11_Rule = "Half Time" ->
                 analyze_half_markets(confidence_thresholds, ScoredName, ScoredData, url)
          [] OTHER -> NoCandidate

\* C11: a market is scored by exactly one rule, the first of 'Match Odds',
\* 'Over/Under', 'Both teams to Score', 'Half' that its name contains (case
\* matters); a market whose name contains none produces no candidate.
C11_Dispatch ==
    ScoredOne =>
        /\ Len(opportunities) <= 1
        /\ opportunities = IF C11_RuleResult.some THEN <<C11_RuleResult>> ELSE <<>>
        /\ opportunities # <<>> => opportunity.justification.rule = C11_Rule
        /\ C11_Rule = "none" => opportunities = <<>> /\ ~opportunity.found

\* A name with 'Half' and 'Match Odds', scored by the Match Odds rule
C11_Witness ==
    /\ ScoredOne
    /\ ScoredName = N_HalfMatchOdds
    /\ opportunities # <<>>
    /\ opportunity.justification.rule = "Match Odds"
    /\ opportunity.selection = S_Favorito

\* The score, in exact hundredths, of the rule that takes the scored market
C12_Points ==
    CASE C11_Rule = "Match Odds" -> Sum(C7_Terms(0, 20, 30))
      [] C11_Rule = "Over/Under" -> Sum(C8_Terms(0, 15, 20, 25, 35))
      [] C11_Rule = "BTTS" -> Sum(C9_Terms(0, 30, 40))
      [] C11_Rule = "Half Time" -> Sum(C10_Terms(0, 25, 30))
      [] OTHER -> 0

\* C12: every candidate of the four rules has confidence_level Alto iff its
\* confidence_score >= 0.8, Medio iff 0.6 <= score < 0.8, and Baixo otherwise;
\* for a single market the same holds of the rule's score in exact hundredths.
C12_ConfidenceLabel ==
    ScoreDone =>
        /\ \A i \in 1..Len(opportunities) :
               opportunities[i].opp.confidence_level =
                   IF FGe(opportunities[i].score, F0_8) THEN "Alto"
                   ELSE IF FGe(opportunities[i].score, F0_6) THEN "Medio"
                   ELSE "Baixo"
        /\ (Len(ScorerInput) = 1 /\ opportunities # <<>>) =>
               opportunity.confidence_level =
                   IF C12_Points >= 80 THEN "Alto"
                   ELSE IF C12_Points >= 60 THEN "Medio"
                   ELSE "Baixo"

\* An Over/Under candidate of score 0.25 + 0.35 + 0.2, exactly at Alto
C12_Witness ==
    /\ ScoredOne
    /\ C11_Rule = "Over/Under"
    /\ opportunities # <<>>
    /\ C12_Points = 80
    /\ opportunity.confidence_level = "Alto"

\* The deep scorer was called on a list of one market, and has returned or raised
ScoreCalledOne ==
    /\ pc = "Done"
    /\ call \in {"analyze_markets", TwoTier}
    /\ stages # <<>> /\ stages[Len(stages)] = "DeepScore"
    /\ Len(ScorerInput) = 1

\* The text of a raw volume without euro sign, blanks and commas
C13_Clean(v) == SelectSeq(v.s, LAMBDA c : c \notin {EUR, " ", ","})

\* Whether that text is a decimal numeral: digits with at most one point
C13_Numeral(s) ==
    /\ \A i \in 1..Len(s) : IsDigit(s[i]) \/ s[i] = "."
    /\ \E i \in 1..Len(s) : IsDigit(s[i])
    /\ Cardinality({i \in 1..Len(s) : s[i] = "."}) <= 1

\* "volume is 0, absent or unparsable, or odds are absent"
C13_MissingData ==
    LET v == ScoredData.volume
    IN  \/ v = NoneV
        \/ v.t \in {"int", "float"} /\ v.n = 0
        \/ v.t = "str" /\ ~C13_Numeral(C13_Clean(v))
        \/ v.t = "str" /\ \A i \in 1..Len(v.s) : ~IsDigit(v.s[i]) \/ v.s[i] = "0"
        \/ ScoredOdds = NoneV

\* C13: a market whose volume is 0, absent or unparsable, or whose odds are
\* absent, is skipped by the rules: no candidate, no exception.
C13_MissingDataSkip ==
    (ScoreCalledOne /\ C11_Rule # "none" /\ C13_MissingData) =>
        /\ raised = "none"
        /\ opportunities = <<>>
        /\ ~opportunity.found

EmptyListText == "Nenhum dado de mercado disponivel"
NoOpportunityText == "nao foram identificadas oportunidades claras"

\* C14 (as the code has it): analyze_markets on the empty list returns the
\* found=false opportunity with the justification "Nenhum dado de mercado
\* disponivel para analise"; on a non-empty list without candidate it returns
\* found=false with another fixed text ("... nao foram identificadas
\* oportunidades claras ..."); analyze_markets_preliminary on the empty list
\* returns no signal.
C14_EmptyInput ==
    /\ (call = "analyze_markets" /\ pc = "Done" /\ market_data = <<>>) =>
           /\ raised = "none"
           /\ opportunity = NotFound(EmptyListText)
           /\ ~opportunity.found
    /\ (call = "analyze_markets" /\ ScoreDone /\ market_data # <<>>
        /\ opportunities = <<>>) =>
           /\ opportunity = NotFound(NoOpportunityText)
           /\ opportunity.justification # NotFound(EmptyListText).justification
    /\ (ScanDone /\ market_data = <<>>) => signals = <<>>

\* analyze_markets has returned from the empty list
C14_Witness ==
    /\ call = "analyze_markets" /\ pc = "Done"
    /\ market_data = <<>>
    /\ opportunity = NotFound(EmptyListText)

\* C14 as claimed: the justification for the empty list is the one returned
\* when a non-empty list yields no candidate.
C14_SameTextAsNoCandidate ==
    (call = "analyze_markets" /\ ScoreDone /\ opportunities = <<>>) =>
        opportunity.justification = NotFound(EmptyListText).justification

\* A call of the core has finished, by a return or by an exception
C15_Finished ==
    /\ pc = "Done"
    /\ call \in {"preliminary_analysis", "analyze_markets", TwoTier}

\* C15: Totality of the core: for every market list, with empty selections,
\* missing market_name or links, selections without a recognized field or with
\* unparsable volume, odds or percent texts, analyze_markets_preliminary,
\* analyze_markets, analyze_markets_two_tier and get_analysis_summary complete
\* without raising, and each analysis cycle returns exactly one
\* BettingOpportunity: a found candidate, or the found=false sentinel with
\* market 'N/A', selection 'N/A' and confidence 'Baixo'.
C15_Totality ==
    /\ C15_Finished => raised = "none"
    /\ (C15_Finished /\ call # "preliminary_analysis") =>
           \/ opportunity.found
           \/ /\ opportunity.market = S_NA
              /\ opportunity.selection = S_NA
              /\ opportunity.confidence_level = "Baixo"
    /\ (C15_Finished /\ call = TwoTier) =>
           /\ summary # <<>>
           /\ summary[Len(summary)].tag \in {"justification", "not_found"}

\* Apart from the exception, every finished cycle has its one opportunity and,
\* in the pipeline, a summary that ends with the verdict
C15_TotalWhenNotRaised ==
    (C15_Finished /\ raised = "none") => C15_Totality

\* The percent texts of the inputs that hold '-', '%' and a number, with the
\* absolute value of that number in hundredths of a percent
C16_Numbers ==
    <<<<<<"-", "5", "%">>, 500>>,
      <<<<"-", "1", "2", "%">>, 1200>>,
      <<<<"-", "1", "0", "%">>, 1000>>,
      <<<<"-", "7", "%">>, 700>>,
      <<<<"-", "1", "4", "%">>, 1400>>,
      <<<<"-", "2", "0", "%">>, 2000>>,
      <<<<"-", "2", "8", "%">>, 2800>>,
      <<<<"-", "3", "%">>, 300>>,
      <<<<"-", "6", "%">>, 600>>,
      <<<<"-", "1", "5", "%">>, 1500>>,
      <<<<"-", "3", "0", "%">>, 3000>>,
      <<<<"-", "6", "0", "%">>, 6000>>,
      <<<<"-", "4", ".", "9", "9", "%">>, 499>>,
      <<<<"-", "0", "%">>, 0>>,
      <<<<"1", "2", "%", "-">>, 1200>>>>

\* d of a percent field: the absolute value of a text with '-', '%' and a
\* number; 0 where the field is absent, is no text or holds no such number
C16_D(percent) ==
    IF percent.t = "str" /\ \E i \in 1..Len(C16_Numbers) : C16_Numbers[i][1] = percent.s
    THEN C16_Numbers[CHOOSE i \in 1..Len(C16_Numbers) : C16_Numbers[i][1] = percent.s][2]
    ELSE 0

\* d >= k * p for the detector's minimum drop p
C16_Ge(d, k, p) == d > k * p.h \/ (d = k * p.h /\ p.e <= 0)

\* The strength the claim gives to a drop d under minimum drop p; F0_0 is none
C16_Strength(d, p) ==
    IF d = 0 THEN F0_0
    ELSE IF C16_Ge(d, 4, p) THEN F1_0
    ELSE IF C16_Ge(d, 2, p) THEN F0_8
    ELSE IF C16_Ge(d, 1, p) THEN F0_6
    ELSE F0_0

\* The drop_odds signals of the scan
C16_Drops == SelectSeq(signals, LAMBDA s : s.signal_type = "drop_odds")

\* The selections of the one scanned market that carry a percent, a change
C16_Field(key) ==
    SelectSeq(market_data[1].selections, LAMBDA sel : C11_Has(Lower(sel.name), key))

C16_ChangeOnly ==
    /\ ScanDone /\ Len(market_data) = 1
    /\ C16_Field(S_change) # <<>>
    /\ C16_Field(S_percent) = <<>>
    /\ C16_Drops = <<>>

\* The Sharp-Bet strengths the rule "0.9 if live and v >= 20000, 0.7 if live
\* and 10000 <= v < 20000, none otherwise" gives for the markets of a list, in
\* order
RECURSIVE C17_Strengths(_)
C17_Strengths(markets) ==
    IF markets = <<>> THEN <<>>
    ELSE With(extract_market_data(Head(markets).selections), LAMBDA data :
         With(IF data.type = StrV(<<"l", "i", "v", "e">>)
              THEN Prelim_parse_volume(data.volume) ELSE NoneV, LAMBDA v :
              (IF v = NoneV \/ v.n < 10000 THEN <<>>
               ELSE IF v.n >= 20000 THEN <<F0_9>>
               ELSE <<F0_7>>)
              \o C17_Strengths(Tail(markets))))

SharpBetSignals == SelectSeq(signals, LAMBDA s : s.signal_type = "sharp_bet")

\* C17: Sharp-Bet detection: a sharp_bet signal is emitted if and only if the
\* market type equals 'live' and the parsed volume is >= 10000; its strength is
\* 0.9 when the volume is >= 20000 and 0.7 when 10000 <= volume < 20000,
\* whatever the tier thresholds of the scan.
C17_SharpBet ==
    ScanDone =>
        [i \in 1..Len(SharpBetSignals) |-> SharpBetSignals[i].strength]
            = C17_Strengths(market_data)

\* A tier1 scan (minimum volume 10000, so 19999 is below twice the minimum)
\* of a live market with 19999: strength 0.7
C17_Witness ==
    /\ call = "preliminary_analysis" /\ pc = "Done"
    /\ tier_analyzer.money_way.min_volume = 10000
    /\ Len(market_data) = 1
    /\ SignalVolume(market_data[1]) = IntV(19999)
    /\ Len(SharpBetSignals) = 1
    /\ SharpBetSignals[1].strength = F0_7

\* C18: Signal strength invariant: every MarketSignal that
\* analyze_markets_preliminary returns, for any market list and any tier
\* configuration, has a strength >= 0.6 and <= 1.0, one of 0.6, 0.7, 0.8, 0.9
\* and 1.0, so the 0.6 activation filter never removes a signal that a
\* detector emitted.
C18_SignalStrength ==
    ScanDone =>
        /\ \A i \in 1..Len(signals) :
               /\ signals[i].strength \in {F0_6, F0_7, F0_8, F0_9, F1_0}
               /\ FGe(signals[i].strength, F0_6)
               /\ FGe(F1_0, signals[i].strength)
        /\ signals = CollectSignals(ScanAnalyzer, market_data)

\* A scan that returned signals of the floor strength 0.6 and of the top
\* strength 1.0
C18_Witness ==
    /\ ScanDone
    /\ \E i \in 1..Len(signals) : signals[i].strength = F0_6
    /\ \E i \in 1..Len(signals) : signals[i].strength = F1_0

\* The signals of one type among those of the scan
C19_OfType(type) == SelectSeq(signals, LAMBDA s : s.signal_type = type)

\* What each detector alone says of the one scanned market
C19_Fires(type) ==
    With(extract_market_data(market_data[1].selections), LAMBDA data :
         LET name == NameOrEmpty(market_data[1])
         IN  IF type = "money_way" THEN detect_money_way(ScanAnalyzer, name, data) # NoSignal
             ELSE IF type = "drop_odds"
             THEN detect_drop_odds(ScanAnalyzer, name, data) # NoSignal
             ELSE detect_sharp_bet(ScanAnalyzer, name, data) # NoSignal)

C19_Types == {"money_way", "drop_odds", "sharp_bet"}

\* C19: Independent detectors: for every market the preliminary scan emits
\* between 0 and 3 signals, at most one of each type (money_way, drop_odds,
\* sharp_bet), and whether one type fires does not depend on whether another
\* type fired for that market; all three can fire for the same market.
C19_IndependentDetectors ==
    /\ (ScanDone /\ Len(market_data) = 1) =>
           /\ Len(signals) <= 3
           /\ \A i \in 1..Len(signals) : signals[i].signal_type \in C19_Types
           /\ \A type \in C19_Types :
                  /\ Len(C19_OfType(type)) <= 1
                  /\ (C19_OfType(type) # <<>>) <=> C19_Fires(type)
    /\ ScanDone =>
           /\ Len(signals) <= 3 * Len(market_data)
           /\ \A type \in C19_Types : Len(C19_OfType(type)) <= Len(market_data)

\* All three detectors fire for one market
C19_Witness ==
    /\ ScanDone /\ Len(market_data) = 1
    /\ Len(signals) = 3
    /\ \A type \in C19_Types : Len(C19_OfType(type)) = 1

\* One detector fires alone, for each of the three
C19_MoneyWayAlone ==
    /\ ScanDone /\ Len(market_data) = 1
    /\ Len(signals) = 1 /\ signals[1].signal_type = "money_way"

C19_DropOddsAlone ==
    /\ ScanDone /\ Len(market_data) = 1
    /\ Len(signals) = 1 /\ signals[1].signal_type = "drop_odds"

C19_SharpBetAlone ==
    /\ ScanDone /\ Len(market_data) = 1
    /\ Len(signals) = 1 /\ signals[1].signal_type = "sharp_bet"

\* The lines of the summary with a tag
C20_Lines(tag) == SelectSeq(summary, LAMBDA line : line.tag = tag)

\* The pipeline has returned a summary
C20_Summarised == call = TwoTier /\ pc = "Done" /\ raised = "none"

\* The signals a summary must highlight
C20_Strong == SelectSeq(signals, LAMBDA s : FGe(s.strength, F0_8))

\* The last n lines of the summary
C20_Last(n) == SubSeq(summary, Len(summary) - n + 1, Len(summary))

\* The counts: one line for each signal type present, with the number of
\* signals of that type
C20_Counts ==
    /\ \A type \in C19_Types :
           LET lines == SelectSeq(C20_Lines("count"), LAMBDA line : line.v[1] = TypeName(type))
           IN  IF C19_OfType(type) = <<>> THEN lines = <<>>
               ELSE /\ Len(lines) = 1
                    /\ lines[1].v[2] = Len(C19_OfType(type))
    /\ Len(C20_Lines("count")) = Cardinality({signals[i].signal_type : i \in 1..Len(signals)})

\* The verdict: the last lines are the four fields of the opportunity iff it
\* is found, the not-found line otherwise
C20_Verdict ==
    IF opportunity.found
    THEN /\ Len(summary) >= 6
         /\ C20_Last(6) = <<SummaryLine("deep_header", <<>>),
                            SummaryLine("found_header", <<>>),
                            SummaryLine("market", <<opportunity.market>>),
                            SummaryLine("selection", <<opportunity.selection>>),
                            SummaryLine("confidence", <<opportunity.confidence_level>>),
                            SummaryLine("justification", <<opportunity.justification>>)>>
         /\ C20_Lines("not_found") = <<>>
    ELSE /\ Len(summary) >= 2
         /\ C20_Last(2) = <<SummaryLine("deep_header", <<>>),
                            SummaryLine("not_found", <<>>)>>
         /\ \A tag \in {"found_header", "market", "selection", "confidence",
                          "justification"} : C20_Lines(tag) = <<>>

\* C20, as the code has it: the summary reports for each signal type present
\* a count equal to the number of signals of that type, highlights the first
\* three signals whose strength is >= 0.8, in order, and none other, and always
\* ends with the deep-scoring verdict, which shows market, selection,
\* confidence and justification if and only if opportunity.found is true and
\* the not-found line otherwise.
C20_SummaryBuilder ==
    C20_Summarised =>
        /\ C20_Counts
        /\ C20_Lines("strong")
               = [i \in 1..(IF Len(C20_Strong) < 3 THEN Len(C20_Strong) ELSE 3) |->
                     SummaryLine("strong", <<C20_Strong[i].market_name,
                                             C20_Strong[i].description>>)]
        /\ C20_Verdict

\* A summary of four strong signals with a found opportunity: three are
\* highlighted
C20_Witness ==
    /\ C20_Summarised
    /\ Len(C20_Strong) = 4
    /\ Len(C20_Lines("strong")) = 3
    /\ opportunity.found

\* C20 as stated: the summary highlights every signal whose strength is >= 0.8
C20_HighlightsEveryStrong ==
    C20_Summarised => Len(C20_Lines("strong")) = Len(C20_Strong)

\* The field each selection name of the inputs maps to ("none": no field)
C21_Field(name) ==
    IF name = K_Type THEN "type"
    ELSE IF name = K_Summ THEN "volume"
    ELSE IF name = K_Odds THEN "odds"
    ELSE IF name = K_Change THEN "change"
    ELSE IF name \in {K_Percent, K_PercentMoney} THEN "percent"
    ELSE IF name = K_Time THEN "time"
    ELSE IF name = K_Score THEN "score"
    ELSE "none"

\* The selections that give a field its value: those that map to it and, for
\* the odds, have a numeric value
C21_Giving(selections, field) ==
    SelectSeq(selections,
              LAMBDA sel : /\ C21_Field(sel.name) = field
                           /\ (field = "odds" => sel.odds.t \in {"int", "float"}))

\* The value of the last of them (an int odds as the float it equals), None
\* when there is none
C21_Value(selections, field) ==
    LET giving == C21_Giving(selections, field)
        last == giving[Len(giving)].odds
    IN  IF giving = <<>> THEN NoneV
        ELSE IF field = "odds" /\ last.t = "int" THEN FloatV(100 * last.n)
        ELSE last

\* A preliminary scan or a deep score of one market has read its selections
C21_Parsed ==
    /\ pc = "Done" /\ raised = "none"
    /\ call \in {"preliminary_analysis", "analyze_markets"}
    /\ Len(market_data) = 1

\* C21: Parser duplicate and odds handling (_extract_market_data): when several
\* selections map to the same field, the value of the last such selection in
\* sequence order is the parsed value; a selection whose name contains 'odds'
\* but whose value is not numeric leaves the odds field as it was (absent if
\* there was no earlier numeric odds), and every field with no matching
\* selection is None.
C21_ParserDuplicates ==
    C21_Parsed =>
        LET selections == market_data[1].selections
            data == extract_market_data(selections)
        IN  /\ data.type = C21_Value(selections, "type")
            /\ data.volume = C21_Value(selections, "volume")
            /\ data.odds = C21_Value(selections, "odds")
            /\ data.change = C21_Value(selections, "change")
            /\ data.percent = C21_Value(selections, "percent")
            /\ data.time = C21_Value(selections, "time")
            /\ data.score = C21_Value(selections, "score")

\* A market with two volumes and, after its numeric odds, an Odds selection
\* with a text: the second volume and the numeric odds are the parsed values
C21_Witness ==
    /\ C21_Parsed /\ call = "analyze_markets"
    /\ market_data[1].selections
           = <<Sel(K_Summ, Euros(3000)), Sel(K_Summ, Euros(75000)), Sel(K_Odds, FloatV(195))>>
    /\ opportunity.found
    /\ opportunity.volume = Euros(75000)

\* A text Odds selection after a numeric one leaves the numeric odds
C21_OddsKept ==
    /\ C21_Parsed
    /\ market_data[1].selections
           = <<Sel(K_Summ, Euros(75000)), Sel(K_Odds, FloatV(195)), Sel(K_Odds, StrV(S_NA))>>
    /\ extract_market_data(market_data[1].selections).odds = FloatV(195)

\* What a step leaves alone: the analyzer's confidence thresholds, the
\* detector's configuration and, while the call runs, its market list
C22_Frame ==
    /\ confidence_thresholds' = confidence_thresholds
    /\ preliminary_analyzer' = preliminary_analyzer
    /\ (pc # "Idle" /\ pc' # "Idle") => market_data' = market_data

\* The result of a cycle that runs after other cycles is the result of the
\* functions on its market list under the configuration of a new analyzer
C22_SameResult ==
    earlier =>
        /\ confidence_thresholds = ConfidenceThresholds
        /\ preliminary_analyzer = PreliminaryAnalyzer(NoTierConfig)
        /\ (call = TwoTier /\ pc \in {"Scanned", "Done"}) =>
               signals = analyze_markets_preliminary(PreliminaryAnalyzer(NoTierConfig),
                                                     market_data)
        /\ (call = TwoTier /\ pc = "Done" /\ raised = "none") =>
               opportunity
                   = IF signals = <<>>
                     THEN NotFound("Analise preliminar nao detectou sinais significativos")
                     ELSE analyze_markets(ConfidenceThresholds,
                              filter_markets_with_signals(market_data, signals))
        /\ (call = "analyze_markets" /\ pc = "Done" /\ raised = "none") =>
               opportunity = analyze_markets(ConfidenceThresholds, market_data)
        /\ (call = "preliminary_analysis" /\ pc = "Done") =>
               signals = analyze_markets_preliminary(
                             PreliminaryAnalyzer(rules[determine_league_tier(league)]),
                             market_data)

\* C22: Stateless cycles: running any sequence of analysis cycles on the same
\* KairosAnalyzer / PreliminaryAnalyzer leaves the input market list, the
\* analyzer's confidence thresholds and the detector's threshold configuration
\* unchanged, so the result of a cycle on a given market list is the same
\* (apart from the detection timestamp) whatever cycles ran before it.
C22_StatelessCycles == []C22_SameResult /\ [][C22_Frame]_vars

\* A pipeline cycle that ran after another cycle and found an opportunity
C22_Witness ==
    /\ earlier
    /\ call = TwoTier /\ pc = "Done"
    /\ signals # <<>>
    /\ opportunity.found

\* a < b for two thresholds of the drop detector
C23_PctLt(a, b) == a.h < b.h \/ (a.h = b.h /\ a.e < b.e)

\* The derived thresholds of a detector are strictly increasing
C23_Increasing(config) ==
    /\ config.money_way.min_volume < config.money_way.high_volume
    /\ config.money_way.high_volume < config.money_way.very_high_volume
    /\ C23_PctLt(config.drop_odds.min_drop_percent, config.drop_odds.significant_drop)
    /\ C23_PctLt(config.drop_odds.significant_drop, config.drop_odds.major_drop)

\* C23: Threshold monotonicity: for every tier configuration accepted by
\* PreliminaryAnalyzer, and for the default one, the derived thresholds satisfy
\* min_volume < high_volume < very_high_volume and
\* min_drop_percent < significant_drop < major_drop.
C23_ThresholdMonotonicity ==
    /\ C23_Increasing(preliminary_analyzer)
    /\ (call = "preliminary_analysis" /\ pc = "Done") => C23_Increasing(tier_analyzer)

\* The thresholds are increasing for the default configuration and for every
\* tier with a positive minimum volume and a minimum drop other than 0
C23_IncreasingWhenPositive ==
    /\ C23_Increasing(preliminary_analyzer)
    /\ (call = "preliminary_analysis" /\ pc = "Done"
        /\ rules[tier].min_volume > 0 /\ rules[tier].min_odds_drop_percent # 0) =>
           C23_Increasing(tier_analyzer)

\* The raw volume of the one market a finished call has read
C24_Raw == extract_market_data(market_data[1].selections).volume

C24_Read ==
    /\ pc = "Done" /\ Len(market_data) = 1
    /\ call \in {"preliminary_analysis", "analyze_markets", TwoTier}

\* C24: Volume parser agreement: for every raw volume value (texts with
\* currency symbol, commas, spaces or a decimal point, and plain numbers),
\* PreliminaryAnalyzer._parse_volume and KairosAnalyzer._parse_volume return
\* the same integer or both return absent, so a market is measured with the
\* same volume in both pipeline stages.
C24_ParserAgreement ==
    C24_Read => Prelim_parse_volume(C24_Raw) = Kairos_parse_volume(C24_Raw)

\* The two parsers agree on the raw volumes without blank and without point
\* that float() reads as a finite number or rejects
C24_AgreeWithoutBlankAndPoint ==
    (C24_Read /\ C24_Raw.t \in {"None", "str", "int"}
     /\ ~C11_Has(C24_Raw.s, <<" ">>) /\ ~C11_Has(C24_Raw.s, <<".">>)
     /\ C24_Raw.s # <<"i", "n", "f">>) =>
        Prelim_parse_volume(C24_Raw) = Kairos_parse_volume(C24_Raw)

\* A market the pipeline measures with two volumes: the scan reads 4500050
\* and signals, the deep scorer reads 45000
C24_TwoVolumes ==
    /\ call = TwoTier /\ ScoreDone /\ Len(market_data) = 1
    /\ Prelim_parse_volume(C24_Raw) = IntV(4500050)
    /\ Kairos_parse_volume(C24_Raw) = IntV(45000)
    /\ signals # <<>>

\* C25: Found implies signalled: whenever analyze_markets_two_tier returns an
\* opportunity with found=true, the returned signal list is not empty and the
\* opportunity's market equals the market_name of at least one returned signal.
C25_FoundImpliesSignalled ==
    (call = TwoTier /\ pc = "Done" /\ raised = "none" /\ opportunity.found) =>
        /\ signals # <<>>
        /\ \E i \in 1..Len(signals) : signals[i].market_name = opportunity.market

\* A found opportunity in a list of two markets of which only the found one
\* signalled
C25_Witness ==
    /\ call = TwoTier /\ pc = "Done" /\ raised = "none"
    /\ opportunity.found
    /\ Len(market_data) = 2
    /\ Len(markets_with_signals) = 1
    /\ \A i \in 1..Len(signals) : signals[i].market_name = opportunity.market

\* The double 0.55, 0x1.199999999999ap-1
C26_Score == Dbl(147639500, 214748368)

\* "volume > 20000 and 1.5 <= odds <= 3.0" of the scored market
C26_Both ==
    /\ ScoredVolume # NoneV /\ ScoredVolume.n > 20000
    /\ ScoredOdds # NoneV /\ 150 <= ScoredOdds.n /\ ScoredOdds.n <= 300

\* C26: the Half rule gives a candidate iff volume > 20000 and 1.5 <= odds <=
\* 3.0 (a volume that only passes the gate of 10000 gives none); every such
\* candidate has score 0.55, and the found opportunity it becomes has the
\* confidence level 'Baixo'.
C26_HalfLowConfidence ==
    (ScoredOne /\ IsHalf) =>
        /\ opportunities # <<>> <=> C26_Both
        /\ opportunities # <<>> =>
               /\ opportunities[1].score = C26_Score
               /\ opportunity = opportunities[1].opp
               /\ opportunity.found
               /\ opportunity.confidence_level = "Baixo"

\* A half market of volume 30000 and odds 1.5 found with confidence 'Baixo'
C26_Witness ==
    /\ ScoredOne /\ IsHalf
    /\ ScoredVolume.n = 30000
    /\ ScoredOdds.n = 150
    /\ opportunity.found
    /\ opportunity.confidence_level = "Baixo"

\* A half market that passes the gate of 10000 with odds in the range, and
\* gives no candidate
C26_GateAlone ==
    /\ ScoredOne /\ IsHalf
    /\ ScoredVolume.n = 15000
    /\ ScoredOdds.n = 200
    /\ opportunities = <<>>

\* The fixed order of the signal types within a market
C27_Order == <<"money_way", "drop_odds", "sharp_bet">>

\* What the detector of a type says of the i-th scanned market
C27_Fires(i, type) ==
    With(extract_market_data(market_data[i].selections), LAMBDA data :
         LET name == NameOrEmpty(market_data[i])
         IN  IF type = "money_way" THEN detect_money_way(ScanAnalyzer, name, data) # NoSignal
             ELSE IF type = "drop_odds"
             THEN detect_drop_odds(ScanAnalyzer, name, data) # NoSignal
             ELSE detect_sharp_bet(ScanAnalyzer, name, data) # NoSignal)

\* The (market index, type) pairs that fire, by market and then by type
C27_Pairs ==
    SelectSeq([k \in 1..(3 * Len(market_data)) |->
                  [i |-> ((k - 1) \div 3) + 1, type |-> C27_Order[((k - 1) % 3) + 1]]],
              LAMBDA p : C27_Fires(p.i, p.type))

\* C27: the preliminary scan lists its signals in the order of the input
\* markets and, within a market, in the order money_way, drop_odds, sharp_bet;
\* with the minimum volume 5000 of the default thresholds a market that emits
\* sharp_bet also emits money_way, placed before it.
C27_SignalOrdering ==
    ScanDone =>
        With(C27_Pairs, LAMBDA pairs :
            /\ Len(signals) = Len(pairs)
            /\ \A k \in 1..Len(pairs) :
                   /\ signals[k].signal_type = pairs[k].type
                   /\ signals[k].market_name = NameOrEmpty(market_data[pairs[k].i])
            /\ ScanAnalyzer.money_way.min_volume = 5000 =>
                   \A k \in 1..Len(pairs) :
                       pairs[k].type = "sharp_bet" =>
                           \E j \in 1..(k - 1) :
                               /\ pairs[j].i = pairs[k].i
                               /\ pairs[j].type = "money_way"
                               /\ signals[j].signal_type = "money_way")

\* A default scan of two markets: the first emits money_way and sharp_bet,
\* the second emits a signal after them
C27_Witness ==
    /\ ScanDone
    /\ ScanAnalyzer.money_way.min_volume = 5000
    /\ Len(market_data) = 2
    /\ Len(signals) >= 3
    /\ signals[1].signal_type = "money_way"
    /\ signals[2].signal_type = "sharp_bet"
    /\ signals[2].market_name = signals[1].market_name
    /\ signals[3].market_name # signals[1].market_name

\* One market emitting all three signals, in the fixed order
C27_AllThree ==
    /\ ScanDone
    /\ Len(market_data) = 1
    /\ [k \in 1..Len(signals) |-> signals[k].signal_type] = C27_Order

\* The driver loop has run at least one iteration; the game it appended last
C28_Last == processed_games[Len(processed_games)]

\* The games returned so far are the first ones of the input, in its order,
\* each with has_prediction and ai_confidence set
C28_Prefix ==
    /\ Len(processed_games) = game_index
    /\ game_index <= Len(live_games_data)
    /\ game_index <= max_games_per_session
    /\ \A k \in 1..Len(processed_games) :
           /\ processed_games[k].teams = live_games_data[k].teams
           /\ processed_games[k].game_link = live_games_data[k].game_link
           /\ processed_games[k].has_prediction.t = "bool"
           /\ processed_games[k].ai_confidence.t \in {"int", "float"}

C28_AfterMissingLink ==
    /\ driver_pc = "Returned"
    /\ Len(processed_games) = 2
    /\ ~Truthy(processed_games[1].game_link)
    /\ processed_games[2].error = StrV(<<"OverflowError">>)

\* Whether a text holds one of the indicator phrases of check_ai_opportunity
C29_HasIndicator(text) ==
    With(Lower(text), LAMBDA lower :
        \/ AnyIndicator(opportunity_indicators, lower)
        \/ AnyIndicator(low_confidence_indicators, lower))

\* What the two-tier analysis of the last game's markets gives
C29_Analysis ==
    analyze_markets_two_tier(PreliminaryAnalyzer(NoTierConfig), ConfidenceThresholds,
                             C28_Last.processed_markets)

\* No market name and no signal description holds an indicator phrase
C29_Clean(analysis) ==
    /\ \A k \in 1..Len(C28_Last.processed_markets) :
           ~C29_HasIndicator(NameOrEmpty(C28_Last.processed_markets[k]))
    /\ \A k \in 1..Len(analysis.signals) :
           ~C29_HasIndicator(DescriptionText(analysis.signals[k].description))

\* No market name holds 'confianca', colons or blanks, and a percentage of 60
\* or more
C29_NoPercentage ==
    \A k \in 1..Len(C28_Last.processed_markets) :
        With(NumberAfter(Lower(NameOrEmpty(C28_Last.processed_markets[k])), W_confianca),
             LAMBDA confidence : confidence = NoneV \/ confidence.n < 6000)

\* The driver has analysed the markets of the game it appended last
C29_Analysed ==
    /\ driver_pc \in {"Loop", "Returned"}
    /\ processed_games # <<>>
    /\ C28_Last.kairos_analysis.t = "str"

\* C29: for a summary of get_analysis_summary whose market names and signal
\* descriptions hold no indicator phrase, and whose market names hold no
\* 'confianca' followed by a percentage of 60 or more, check_ai_opportunity
\* gives has_opportunity equal to opportunity.found: the driver's
\* has_prediction is true exactly when the deep scorer found an opportunity.
C29_FlagRoundTrip ==
    C29_Analysed =>
        With(C29_Analysis, LAMBDA analysis :
            (C29_Clean(analysis) /\ C29_NoPercentage) =>
                /\ check_ai_opportunity(C28_Last.kairos_analysis.s).has_opportunity
                       = analysis.opportunity.found
                /\ C28_Last.has_prediction = BoolV(analysis.opportunity.found))

\* A game with a found opportunity of level 'Baixo' and the flag set
C29_Witness ==
    /\ C29_Analysed
    /\ C29_Clean(C29_Analysis)
    /\ C29_NoPercentage
    /\ C29_Analysis.opportunity.found
    /\ C29_Analysis.opportunity.confidence_level = "Baixo"
    /\ C28_Last.has_prediction = BoolV(TRUE)

\* The flag equals opportunity.found whenever no name and no description holds
\* an indicator phrase
C29_FlagEqualsFoundWithoutPhrases ==
    C29_Analysed =>
        With(C29_Analysis, LAMBDA analysis :
            C29_Clean(analysis) =>
                C28_Last.has_prediction = BoolV(analysis.opportunity.found))

\* A market named 'Confianca 75%' with a strong signal and no opportunity: no
\* indicator phrase in the summary, and the flag is set
C29_PercentageName ==
    /\ C29_Analysed
    /\ C29_Clean(C29_Analysis)
    /\ C28_Last.processed_markets[1].market_name = N_Confianca75
    /\ ~C29_Analysis.opportunity.found
    /\ C28_Last.ai_confidence = FloatV(7500)
    /\ C28_Last.has_prediction = BoolV(TRUE)

\* A market named 'Confianca: 59.5%' with a strong signal and no opportunity:
\* the percentage is read and the flag is not set
C29_BelowSixty ==
    /\ C29_Analysed
    /\ C29_Clean(C29_Analysis)
    /\ C28_Last.processed_markets[1].market_name = N_Confianca59
    /\ C28_Last.ai_confidence = FloatV(5950)
    /\ C28_Last.has_prediction = BoolV(FALSE)

\* A game with signals and no opportunity, and the flag not set
C29_NotFoundWitness ==
    /\ C29_Analysed
    /\ C29_Clean(C29_Analysis)
    /\ C29_NoPercentage
    /\ C29_Analysis.signals # <<>>
    /\ ~C29_Analysis.opportunity.found
    /\ C28_Last.has_prediction = BoolV(FALSE)

\* A market name with a positive phrase sets the flag without an opportunity
C29_PositiveName ==
    /\ C29_Analysed
    /\ ~C29_Clean(C29_Analysis)
    /\ ~C29_Analysis.opportunity.found
    /\ C28_Last.has_prediction = BoolV(TRUE)

\* A market name with a negative phrase hides a found opportunity
C29_NegativeName ==
    /\ C29_Analysed
    /\ ~C29_Clean(C29_Analysis)
    /\ C29_Analysis.opportunity.found
    /\ C28_Last.has_prediction = BoolV(FALSE)

\* The outcomes after which TelegramSender.send_message tries again
C30_Retried == {"RetryAfter", "NetworkError"}

\* What send_message raised to its caller
C30_Raised == returned \in {"ValueError", "Exception", "ClientError"}

\* C30: TelegramSender.send_message, for every sequence of outcomes of the
\* underlying send (success, RetryAfter, NetworkError, other TelegramError,
\* other exception), makes at most max_retries (3) attempts, stops at the
\* first success and returns True, returns False without further attempts on
\* a non-network TelegramError or an unexpected exception, returns False
\* after max_retries rate-limit or network failures, and never raises.
C30_NotificationRetry ==
    sender = "TelegramSender" =>
        /\ attempt = Len(sent)
        /\ attempt <= 3
        /\ \A k \in 1..(Len(sent) - 1) : sent[k] \in C30_Retried
        /\ sender_pc = "Sending" =>
               /\ returned = "none"
               /\ attempt < 3
               /\ \A k \in 1..Len(sent) : sent[k] \in C30_Retried
        /\ sender_pc = "Returned" =>
               /\ ~C30_Raised
               /\ returned \in {"True", "False"}
               /\ sent # <<>>
               /\ returned = "True" <=> sent[Len(sent)] = "success"
               /\ sent[Len(sent)] \in C30_Retried => Len(sent) = 3

\* A rate limit and two network errors: three attempts, False
C30_Witness ==
    /\ sender = "TelegramSender"
    /\ sender_pc = "Returned"
    /\ sent = <<"RetryAfter", "NetworkError", "NetworkError">>
    /\ slept = <<30, retry_delay>>
    /\ returned = "False"

\* A success on the third attempt: True
C30_ThirdTime ==
    /\ sender = "TelegramSender"
    /\ sender_pc = "Returned"
    /\ sent = <<"NetworkError", "RetryAfter", "success">>
    /\ returned = "True"

\* A TelegramError on the second attempt: False, no third attempt
C30_GivesUp ==
    /\ sender = "TelegramSender"
    /\ sender_pc = "Returned"
    /\ sent = <<"NetworkError", "TelegramError">>
    /\ returned = "False"

\* TelegramNotifier.send_message raises the error of its third attempt
C30_NotifierRaises ==
    /\ sender = "TelegramNotifier"
    /\ sender_pc = "Returned"
    /\ Len(sent) = 3
    /\ slept = <<1, 2>>
    /\ C30_Raised

====
